---- MODULE Spec2Model ----
(***************************************************************************)
(* Artwork visibility / expiry state machine of the kids-gallery pages:    *)
(* the manage page (togglePublic, extendTwoWeeks, deleteArtwork, load),    *)
(* the upload page (upload) and the pure helpers isExpired, StatusBadge    *)
(* and daysLeft.                                                           *)
(*                                                                         *)
(* Time is counted in ticks of TICK_MS milliseconds (six hours), so that   *)
(* TWO_WEEKS_MS and one day are whole numbers of ticks and a day is four   *)
(* ticks.  A timestamp string is <<t>>, the SQL/JS null is <<>>.           *)
(*                                                                         *)
(* Spec follows one artwork through its whole life, with the clock.        *)
(* RowsSpec has two artworks at one instant, for handlers of different     *)
(* rows that run together.  FnSpec applies the pure functions to arbitrary *)
(* arguments.  DeleteSpec follows deleteArtwork alone, GallerySpec the     *)
(* gallery and home pages with the session, SessionsSpec adds a second     *)
(* session of the family, and LiveSpec is Spec with every remote call of   *)
(* a mutation handler returning in the end.                                *)
(***************************************************************************)
EXTENDS Integers, Sequences, FiniteSets, TLC

VARIABLES
  now,         \* the wall clock (Date.now()), in ticks
  store,       \* remote table "artworks": id -> [is_public, public_until]
  files,       \* remote storage bucket "artworks": ids whose file is stored
  nextId,      \* index of the next file name / record id to be generated
  up,          \* upload page: the upload() handler
  mountPc,     \* manage page: position of the mount effect
  myFamilyId,  \* manage page state
  items,       \* manage page state: last loaded list, id -> record
  busyId,      \* manage page state
  msg,         \* manage page state: <<prefix, backend text>>
  handlers,    \* manage page: handler invocations suspended at an await
  timers,      \* manage page: pending setTimeout(() => setMsg(""), 1200)
  renderedAt,  \* manage page: clock value of the last render
  fnArt,       \* argument of the pure functions
  fnNow,       \* clock value the pure functions are applied at
  fnRes,       \* result of the last application of a pure function
  profiles,    \* remote table "profiles": user id -> [family_id, invite_token]
  inviteToken, \* manage page state
  inviteBusy,  \* manage page state
  inv,         \* manage page: the createOrRegenerateInvite() handler
  tokLen,      \* makeToken: the argument len
  tokBytes,    \* makeToken: the random byte array
  tokOut,      \* makeToken: the string built so far
  tokIter,     \* makeToken: the loop counter i
  guestbook,   \* remote table "guestbook_entries" of the family, newest first
  vPc,         \* invite page: "closed", "effect" (rendered, effect pending), "open"
  vToken,      \* invite page: the route parameter token
  vArtworks,   \* invite page state
  vEntries,    \* invite page state
  vName,       \* invite page state
  vContent,    \* invite page state
  vStatus,     \* invite page state: <<text, backend text>>
  vLoading,    \* invite page state
  vSubmitBusy, \* invite page state
  vLoadRes,    \* invite page: results loadAll is waiting for
  vCalls,      \* invite page: remote calls in flight
  vTimers,     \* invite page: pending setTimeout(() => setStatus(""), 1200)
  vAlert,      \* invite page: text of the last alert()
  pIn,         \* parseArtworkMadeAt: what the user meant to type
  pText,       \* parseArtworkMadeAt: the argument input, a string
  pRes,        \* parseArtworkMadeAt: the value returned
  form,        \* upload page: kidName/title/file filled, useNow, madeAtInput, madeAtError
  noPath,      \* artworks table: ids of the rows whose private_image_path is empty
  session,     \* auth service: the browser holds a session
  gPc,         \* gallery page: position of the mount effect's run()
  gItems,      \* gallery page: items
  gMsg,        \* gallery page: msg
  gLoading,    \* gallery page: loading
  gSweep,      \* gallery page: how the awaited expire_public_artworks call ended
  hPc,         \* home page: position of the mount effect's init()
  isLoggedIn   \* home page: isLoggedIn

vars == <<now, store, files, nextId, up, mountPc, myFamilyId, items, busyId,
          msg, handlers, timers, renderedAt, fnArt, fnNow, fnRes,
          profiles, inviteToken, inviteBusy, inv, tokLen, tokBytes, tokOut, tokIter,
          guestbook, vPc, vToken, vArtworks, vEntries, vName, vContent, vStatus,
          vLoading, vSubmitBusy, vLoadRes, vCalls, vTimers, vAlert,
          pIn, pText, pRes, form,
          noPath, session, gPc, gItems, gMsg, gLoading, gSweep, hPc, isLoggedIn>>

pageVars == <<mountPc, myFamilyId, items, busyId, msg, handlers, timers, renderedAt>>
fnVars == <<fnArt, fnNow, fnRes>>
inviteVars == <<profiles, inviteToken, inviteBusy, inv>>
tokVars == <<tokLen, tokBytes, tokOut, tokIter>>
visitVars == <<guestbook, vPc, vToken, vArtworks, vEntries, vName, vContent, vStatus,
               vLoading, vSubmitBusy, vLoadRes, vCalls, vTimers, vAlert>>
parseVars == <<pIn, pText, pRes>>
formVars == <<form>>
galleryVars == <<gPc, gItems, gMsg, gLoading, gSweep>>
sideVars == <<fnVars, inviteVars, tokVars, visitVars, parseVars, formVars, noPath>>
homeVars == <<hPc, isLoggedIn>>
extraVars == <<noPath, session, galleryVars, homeVars>>
restVars == <<tokVars, visitVars, parseVars, formVars, extraVars>>
otherVars == <<inviteVars, restVars>>

----------------------------------------------------------------------------
(* Bounds *)

MaxClock == 57
MaxDrift == 1
MaxInFlight == 2
FnMaxT == 7
MaxTimers == 1
MaxEntries == 2

----------------------------------------------------------------------------
(* Constants of the program *)

TICK_MS == 6 * 60 * 60 * 1000
TWO_WEEKS_MS == 14 * 24 * 60 * 60 * 1000
DAY_MS == 24 * 60 * 60 * 1000

TwoWeeks == TWO_WEEKS_MS \div TICK_MS
Day == DAY_MS \div TICK_MS

IdSeq == <<"a1", "a2">>
SoloSeq == <<"a1">>
ArtIds == {IdSeq[i] : i \in 1..Len(IdSeq)}
NULL_ID == "null"
NULL == <<>>
FAMILY == "fam"
NO_FAMILY == "null"
Errors == {"permission denied"}

NoResp == <<>>
OkResp == <<"ok">>
ErrResp(e) == <<"error", e>>
IsErr(r) == Len(r) = 2

Resps == {OkResp} \cup {ErrResp(e) : e \in Errors}

NoMsg == <<"", "">>
NoPayload == [is_public |-> FALSE, public_until |-> NULL]
MadeAtInputs == {0 - Day}

ME == "u1"
PARTNER == "u2"
Users == {ME, PARTNER}
Tokens == {"t1", "t2"}
NO_TOKEN == ""
NULL_TOKEN == "null"
EmptyResp == <<"empty">>
InvIdle == [pc |-> "idle", next |-> NO_TOKEN]

DEFAULT_LEN == 24
INVITE_LEN == 28
BYTE_VALUES == 256

alphabet ==
  <<"A", "B", "C", "D", "E", "F", "G", "H", "J", "K", "L", "M", "N", "P", "Q", "R",
    "S", "T", "U", "V", "W", "X", "Y", "Z",
    "a", "b", "c", "d", "e", "f", "g", "h", "i", "j", "k", "m", "n", "o", "p", "q",
    "r", "s", "t", "u", "v", "w", "x", "y", "z",
    "2", "3", "4", "5", "6", "7", "8", "9">>

MIN_TOKEN_LEN == 6

\* texts of the invite page's status line
StLoading == <<"loading", "">>
StInvalid == <<"invalid link", "">>
StLoadFailed == <<"load failed", "">>
StNoArtworks == <<"no artworks yet", "">>
StNone == <<"", "">>
StSubmitting == <<"submitting", "">>
StPosted == <<"posted", "">>

GET_GUESTBOOK == "get_guestbook_entries_by_token"
GET_ARTWORKS == "get_artworks_by_token"
ADD_ENTRY == "add_guestbook_entry"

NoLoadRes == [guest |-> "none", art |-> "none", count |-> 0]

\* strings the page trims are sequences of characters
WhiteSpace == {" "}
RouteTokens ==
  {<<>>, <<"a", "b", "c">>, <<" ", " ", " ", "a", "b", "c", " ">>,
   <<"a", "b", "c", "d", "e">>, <<"a", "b", "c", "d", "e", "f">>}
TypedNames == {<<>>, <<" ">>, <<" ", "K", " ">>, <<"L">>}
TypedContents == {<<>>, <<" ">>, <<"h", "i", " ">>}
ArtworkLists == {<<>>, <<"a1">>}

\* what `out += undefined` appends
Undefined == <<"u", "n", "d", "e", "f", "i", "n", "e", "d">>

----------------------------------------------------------------------------
(* Pure helpers *)

toISO(t) == <<t>>

getTime(iso) == iso[1]

\* isExpired without the is_public test
isExpiredIgnoresFlag(art, t) ==
  IF art.public_until = NULL THEN FALSE
  ELSE getTime(art.public_until) <= t

isExpired(art, t) ==
  IF ~art.is_public THEN FALSE
  ELSE IF art.public_until = NULL THEN FALSE
  ELSE getTime(art.public_until) <= t

StatusBadge(art, t) ==
  IF ~art.is_public THEN "Private"
  ELSE IF isExpired(art, t) THEN "PublicExpired"
  ELSE "PublicActive"

\* Math.floor in place of Math.ceil
floor(n, d) == n \div d

ceil(n, d) == -((-n) \div d)

daysLeft(iso, t) ==
  IF iso = NULL THEN NULL
  ELSE <<ceil(getTime(iso) - t, Day)>>

leftText(left) ==
  IF left = NULL THEN <<"">>
  ELSE IF left[1] <= 0 THEN <<"ends today">>
  ELSE <<"days left", left[1]>>

\* extend offered for every public row
extendEnabledAnyPublic(a, t) == a.is_public

extendEnabled(a, t) == a.is_public /\ isExpired(a, t)

\* un-publish that leaves a deadline behind
TogglePayloadKeepsDeadline(art, t) ==
  [is_public |-> ~art.is_public, public_until |-> toISO(t + TwoWeeks)]

\* publish for one week
TogglePayloadOneWeek(art, t) ==
  [is_public |-> ~art.is_public,
   public_until |-> IF ~art.is_public THEN toISO(t + (TwoWeeks \div 2)) ELSE NULL]

\* the two arms of the conditional exchanged
TogglePayloadInverted(art, t) ==
  [is_public |-> ~art.is_public,
   public_until |-> IF ~art.is_public THEN NULL ELSE toISO(t + TwoWeeks)]

TogglePayload(art, t) ==
  [is_public |-> ~art.is_public,
   public_until |-> IF ~art.is_public THEN toISO(t + TwoWeeks) ELSE NULL]

\* extend that forgets to add the two weeks
ExtendPayloadNoShift(t) ==
  [is_public |-> TRUE, public_until |-> toISO(t)]

ExtendPayload(t) ==
  [is_public |-> TRUE, public_until |-> toISO(t + TwoWeeks)]

\* an insert that creates the artwork public
InsertedArtworkPublic(made_at) ==
  [is_public |-> TRUE, public_until |-> NULL, artwork_made_at |-> made_at]

\* the row the insert creates: public_until is not given and takes the
\* column's default, null
InsertedArtwork(made_at) ==
  [is_public |-> FALSE, public_until |-> NULL, artwork_made_at |-> made_at]

\* update(payload).eq("id", id) on a stored row
Updated(rec, payload) ==
  [rec EXCEPT !.is_public = payload.is_public, !.public_until = payload.public_until]

\* prof.invite_token ?? ""
orEmpty(tok) == IF tok = NULL_TOKEN THEN NO_TOKEN ELSE tok

Without(f, id) == [i \in (DOMAIN f) \ {id} |-> f[i]]

With(f, id, r) == [i \in (DOMAIN f) \cup {id} |-> IF i = id THEN r ELSE f[i]]

----------------------------------------------------------------------------
(* Initial state *)

DigitChars == <<"0", "1", "2", "3", "4", "5", "6", "7", "8", "9">>

NO_ERROR == "null"

\* what is typed into the made-at field: numbers written with padStart
Pad2(v) == <<DigitChars[((v \div 10) % 10) + 1], DigitChars[(v % 10) + 1]>>

Pad4(v) == Pad2(v \div 100) \o Pad2(v % 100)

DateText(in, sep) == Pad4(in.y) \o <<sep>> \o Pad2(in.mo) \o <<sep>> \o Pad2(in.d)

TimeText(in) == Pad2(in.h) \o <<":">> \o Pad2(in.mi)

Typed(in) ==
  IF in.shape = "plain" THEN DateText(in, "-") \o <<" ">> \o TimeText(in)
  ELSE IF in.shape = "padded"
    THEN <<" ", " ">> \o DateText(in, "-") \o <<" ", " ", " ">> \o TimeText(in) \o <<" ">>
  ELSE IF in.shape = "T" THEN DateText(in, "-") \o <<"T">> \o TimeText(in)
  ELSE IF in.shape = "joined" THEN DateText(in, "-") \o TimeText(in)
  ELSE IF in.shape = "slashes" THEN DateText(in, "/") \o <<" ">> \o TimeText(in)
  ELSE IF in.shape = "seconds"
    THEN DateText(in, "-") \o <<" ">> \o TimeText(in) \o <<":", "0", "0">>
  ELSE IF in.shape = "date only" THEN DateText(in, "-")
  ELSE <<"a", "b", "c">>

\* the calendar day of the clock's origin
TODAY == [y |-> 2024, mo |-> 1, d |-> 15]

formatNowForInput ==
  Typed([y |-> TODAY.y, mo |-> TODAY.mo, d |-> TODAY.d, h |-> 24, mi |-> 0,
         shape |-> "plain"])

\* the upload form as mounted, and as upload() leaves it after a success
FormReset ==
  [filled |-> FALSE, useNow |-> TRUE, madeAtInput |-> formatNowForInput,
   madeAtError |-> NO_ERROR]

FormIdle == form = FormReset

MainInit ==
  /\ now = 0
  /\ store = <<>>
  /\ files = {}
  /\ nextId = 1
  /\ up = [pc |-> "idle", id |-> NULL_ID, useNow |-> TRUE, artwork_made_at |-> NULL]
  /\ mountPc = "closed"
  /\ myFamilyId = NO_FAMILY
  /\ items = <<>>
  /\ busyId = NULL_ID
  /\ msg = NoMsg
  /\ handlers = {}
  /\ timers = 0
  /\ renderedAt = 0
  /\ profiles = [u \in Users |-> [family_id |-> FAMILY, invite_token |-> NULL_TOKEN]]
  /\ inviteToken = NO_TOKEN
  /\ inviteBusy = FALSE
  /\ inv = InvIdle

TokIdle ==
  /\ tokLen = 0
  /\ tokBytes = <<>>
  /\ tokOut = <<>>
  /\ tokIter = 0

VisitInit ==
  /\ guestbook = <<>>
  /\ vPc = "closed"
  /\ vToken = <<>>
  /\ vArtworks = <<>>
  /\ vEntries = <<>>
  /\ vName = <<>>
  /\ vContent = <<>>
  /\ vStatus = StLoading
  /\ vLoading = TRUE
  /\ vSubmitBusy = FALSE
  /\ vLoadRes = NoLoadRes
  /\ vCalls = {}
  /\ vTimers = 0
  /\ vAlert = ""

ParseIdle ==
  /\ pIn = [y |-> 0, mo |-> 0, d |-> 0, h |-> 0, mi |-> 0, shape |-> "none"]
  /\ pText = <<>>
  /\ pRes = [iso |-> NULL, error |-> "not called"]

\* every stored row has a private_image_path, the user is logged in, the
\* gallery page and the home page are not open
ExtraIdle ==
  /\ noPath = {}
  /\ session = TRUE
  /\ gPc = "closed"
  /\ gItems = <<>>
  /\ gMsg = <<"", "">>
  /\ gLoading = TRUE
  /\ gSweep = "none"
  /\ hPc = "closed"
  /\ isLoggedIn = FALSE

RestInit == TokIdle /\ VisitInit /\ ParseIdle /\ FormIdle /\ ExtraIdle

Init ==
  /\ MainInit
  /\ RestInit
  /\ fnArt = [is_public |-> FALSE, public_until |-> NULL]
  /\ fnNow = 0
  /\ fnRes = <<"none">>

----------------------------------------------------------------------------
(* The clock *)

Tick(d) ==
  /\ now + d <= MaxClock
  /\ d < TwoWeeks => (now + d) % TwoWeeks <= MaxDrift
  /\ d >= TwoWeeks => handlers = {}
  /\ now' = now + d
  /\ UNCHANGED <<store, files, nextId, up, pageVars, fnVars, otherVars>>

----------------------------------------------------------------------------
(* Upload page: upload() *)

canSubmit(filled, useNow, madeAtError) ==
  IF ~filled THEN FALSE
  ELSE IF ~useNow /\ madeAtError THEN FALSE
  ELSE TRUE

UploadIdle == [pc |-> "idle", id |-> NULL_ID, useNow |-> TRUE, artwork_made_at |-> NULL]

\* upload() up to its first await (the profiles select); at most `limit`
\* uploads are made in a behaviour
UploadStart(limit, filled, useNow, madeAtError, parsed) ==
  /\ mountPc = "closed"
  /\ up.pc = "idle"
  /\ nextId <= limit
  /\ canSubmit(filled, useNow, madeAtError)
  /\ useNow \/ ~madeAtError
  /\ up' = [up EXCEPT !.pc = "profile", !.useNow = useNow,
                      !.artwork_made_at = IF useNow THEN toISO(now) ELSE toISO(parsed)]
  /\ UNCHANGED <<now, store, files, nextId, pageVars, fnVars, otherVars>>

\* the profiles select returns; the file path is generated
UploadProfile(r) ==
  /\ up.pc = "profile"
  /\ IF IsErr(r)
       THEN /\ up' = UploadIdle
            /\ UNCHANGED nextId
       ELSE /\ up' = [up EXCEPT !.pc = "storage", !.id = IdSeq[nextId]]
            /\ nextId' = nextId + 1
  /\ UNCHANGED <<now, store, files, pageVars, fnVars, otherVars>>

\* an upload that goes on to the insert whatever storage.upload returned
UploadStorageProceeds(r) ==
  /\ up.pc = "storage"
  /\ files' = IF r = OkResp THEN files \cup {up.id} ELSE files
  /\ up' = [up EXCEPT !.pc = "insert"]
  /\ UNCHANGED <<now, store, nextId, pageVars, fnVars, otherVars>>

\* storage.upload(filePath, file) returns
UploadStorage(r) ==
  /\ up.pc = "storage"
  /\ files' = IF r = OkResp THEN files \cup {up.id} ELSE files
  /\ up' = IF IsErr(r) THEN UploadIdle ELSE [up EXCEPT !.pc = "insert"]
  /\ UNCHANGED <<now, store, nextId, pageVars, fnVars, otherVars>>

\* the artworks insert returns
UploadInsert(r) ==
  /\ up.pc = "insert"
  /\ store' = IF r = OkResp THEN With(store, up.id, InsertedArtwork(up.artwork_made_at)) ELSE store
  /\ up' = UploadIdle
  /\ form' = IF r = OkResp THEN FormReset ELSE form
  /\ UNCHANGED <<now, files, nextId, pageVars, fnVars, inviteVars, tokVars,
                 visitVars, parseVars, extraVars>>

----------------------------------------------------------------------------
(* Manage page: mount effect, load, refresh *)

Handler(op, id, payload, pc) ==
  [op |-> op, id |-> id, payload |-> payload, started |-> now,
   fam |-> myFamilyId, pc |-> pc, resp |-> NoResp, snap |-> <<>>]

Replace(h, h2) == (handlers \ {h}) \cup {h2}

Mutations == {"toggle", "extend", "delete"}

\* the browser leaves the upload page for /manage (the redirect after an
\* upload, or the link): the manage page is constructed with its initial state
OpenManage ==
  /\ mountPc = "closed"
  /\ up.pc = "idle"
  /\ mountPc' = "session"
  /\ UNCHANGED <<now, store, files, nextId, up, myFamilyId, items, busyId, msg,
                 handlers, timers, renderedAt, fnVars, otherVars>>

\* the link to /upload: the manage page and its state are discarded
OpenUpload ==
  /\ mountPc = "done"
  /\ handlers = {} /\ timers = 0 /\ inv = InvIdle
  /\ mountPc' = "closed"
  /\ myFamilyId' = NO_FAMILY
  /\ items' = <<>>
  /\ busyId' = NULL_ID
  /\ msg' = NoMsg
  /\ renderedAt' = 0
  /\ inviteToken' = NO_TOKEN
  /\ inviteBusy' = FALSE
  /\ UNCHANGED <<now, store, files, nextId, up, handlers, timers, fnVars, restVars,
                 profiles, inv>>

MountSession(ok) ==
  /\ mountPc = "session"
  /\ mountPc' = IF ok THEN "profile" ELSE "login"
  /\ UNCHANGED <<now, store, files, nextId, up, myFamilyId, items, busyId, msg,
                 handlers, timers, renderedAt, fnVars, otherVars>>

MountProfile(r) ==
  /\ mountPc = "profile"
  /\ mountPc' = "done"
  /\ renderedAt' = now
  /\ IF IsErr(r)
       THEN /\ msg' = <<"profile failed", r[2]>>
            /\ UNCHANGED <<myFamilyId, handlers, inviteToken>>
       ELSE /\ myFamilyId' = FAMILY
            /\ inviteToken' = orEmpty(profiles[ME].invite_token)
            /\ msg' = <<"loading", "">>
            /\ handlers' = handlers \cup
                 {[Handler("mount", NULL_ID, NoPayload, "load") EXCEPT !.fam = FAMILY]}
  /\ UNCHANGED <<now, store, files, nextId, up, items, busyId, timers, fnVars, restVars,
                 profiles, inviteBusy, inv>>

Refresh ==
  /\ mountPc = "done"
  /\ myFamilyId # NO_FAMILY
  /\ Cardinality(handlers) < MaxInFlight
  /\ msg' = <<"loading", "">>
  /\ handlers' = handlers \cup {Handler("refresh", NULL_ID, NoPayload, "load")}
  /\ renderedAt' = now
  /\ UNCHANGED <<now, store, files, nextId, up, mountPc, myFamilyId, items, busyId,
                 timers, fnVars, otherVars>>

Rerender ==
  /\ mountPc = "done"
  /\ renderedAt # now
  /\ renderedAt' = now
  /\ UNCHANGED <<now, store, files, nextId, up, mountPc, myFamilyId, items, busyId,
                 msg, handlers, timers, fnVars, otherVars>>

ServeLoad(h, r) ==
  /\ h.pc = "load" /\ h.resp = NoResp
  /\ handlers' = Replace(h, [h EXCEPT !.resp = r,
                                      !.snap = IF r = OkResp THEN store ELSE <<>>])
  /\ UNCHANGED <<now, store, files, nextId, up, mountPc, myFamilyId, items, busyId,
                 msg, timers, renderedAt, fnVars, otherVars>>

\* a reload after which the handler forgets setBusyId(null)
ResumeLoadKeepsBusy(h) ==
  /\ h.pc = "load" /\ h.resp # NoResp
  /\ handlers' = handlers \ {h}
  /\ items' = IF IsErr(h.resp) THEN items ELSE h.snap
  /\ msg' = IF IsErr(h.resp) /\ h.op \notin Mutations
              THEN <<"load failed", h.resp[2]>> ELSE NoMsg
  /\ renderedAt' = now
  /\ UNCHANGED <<now, store, files, nextId, up, mountPc, myFamilyId, busyId, timers,
                 fnVars, otherVars>>

ResumeLoad(h) ==
  /\ h.pc = "load" /\ h.resp # NoResp
  /\ handlers' = handlers \ {h}
  /\ items' = IF IsErr(h.resp) THEN items ELSE h.snap
  /\ msg' = IF IsErr(h.resp) /\ h.op \notin Mutations
              THEN <<"load failed", h.resp[2]>> ELSE NoMsg
  /\ busyId' = IF h.op \in Mutations THEN NULL_ID ELSE busyId
  /\ renderedAt' = now
  /\ UNCHANGED <<now, store, files, nextId, up, mountPc, myFamilyId, timers, fnVars, otherVars>>

----------------------------------------------------------------------------
(* Manage page: togglePublic, extendTwoWeeks *)

busy(id) == busyId = id

FailPrefix(op) ==
  IF op = "toggle" THEN "change failed"
  ELSE IF op = "extend" THEN "extend failed"
  ELSE "db delete failed"

togglePublic(id) ==
  /\ mountPc = "done"
  /\ id \in DOMAIN items
  /\ ~busy(id)
  /\ Cardinality(handlers) < MaxInFlight
  /\ busyId' = id
  /\ msg' = <<"changing", "">>
  /\ handlers' = handlers \cup
       {Handler("toggle", id, TogglePayload(items[id], now), "update")}
  /\ renderedAt' = now
  /\ UNCHANGED <<now, store, files, nextId, up, mountPc, myFamilyId, items, timers, fnVars, otherVars>>

extendTwoWeeks(id) ==
  /\ mountPc = "done"
  /\ id \in DOMAIN items
  /\ extendEnabled(items[id], renderedAt) /\ ~busy(id)
  /\ Cardinality(handlers) < MaxInFlight
  /\ busyId' = id
  /\ msg' = <<"extending", "">>
  /\ handlers' = handlers \cup
       {Handler("extend", id, ExtendPayload(now), "update")}
  /\ renderedAt' = now
  /\ UNCHANGED <<now, store, files, nextId, up, mountPc, myFamilyId, items, timers, fnVars, otherVars>>

\* an update whose failure path has already changed the list (optimistic)
UpdateReturnOptimistic(h, r) ==
  /\ h.pc = "update"
  /\ store' = IF r = OkResp /\ h.id \in DOMAIN store
                THEN [store EXCEPT ![h.id] = Updated(@, h.payload)] ELSE store
  /\ items' = IF IsErr(r) /\ h.id \in DOMAIN items
                THEN [items EXCEPT ![h.id] = Updated(@, h.payload)] ELSE items
  /\ IF IsErr(r)
       THEN /\ msg' = <<FailPrefix(h.op), r[2]>>
            /\ busyId' = NULL_ID
            /\ handlers' = handlers \ {h}
       ELSE /\ msg' = <<"loading", "">>
            /\ handlers' = Replace(h, [h EXCEPT !.pc = "load"])
            /\ UNCHANGED busyId
  /\ renderedAt' = now
  /\ UNCHANGED <<now, files, nextId, up, mountPc, myFamilyId, timers, fnVars, otherVars>>

\* the artworks update of togglePublic / extendTwoWeeks is applied (or
\* refused) by the backend and the handler resumes with its result
UpdateReturn(h, r) ==
  /\ h.pc = "update"
  /\ store' = IF r = OkResp /\ h.id \in DOMAIN store
                THEN [store EXCEPT ![h.id] = Updated(@, h.payload)] ELSE store
  /\ IF IsErr(r)
       THEN /\ msg' = <<FailPrefix(h.op), r[2]>>
            /\ busyId' = NULL_ID
            /\ handlers' = handlers \ {h}
       ELSE IF h.fam # NO_FAMILY
         THEN /\ msg' = <<"loading", "">>
              /\ handlers' = Replace(h, [h EXCEPT !.pc = "load"])
              /\ UNCHANGED busyId
         ELSE /\ msg' = NoMsg
              /\ busyId' = NULL_ID
              /\ handlers' = handlers \ {h}
  /\ renderedAt' = now
  /\ UNCHANGED <<now, files, nextId, up, mountPc, myFamilyId, items, timers, fnVars, otherVars>>

----------------------------------------------------------------------------
(* Manage page: deleteArtwork *)

\* The record of id k was inserted by upload() with private_image_path = the
\* public URL of file k, from which the bucket path k is extracted again; a
\* row whose private_image_path is empty yields "".
getStoragePathFromPrivateImagePath(id) == IF id \in noPath THEN "" ELSE id

deleteArtwork(id) ==
  /\ mountPc = "done"
  /\ id \in DOMAIN items
  /\ ~busy(id)
  /\ Cardinality(handlers) < MaxInFlight
  /\ busyId' = id
  /\ IF getStoragePathFromPrivateImagePath(id) # ""
       THEN /\ msg' = <<"deleting", "">>
            /\ handlers' = handlers \cup {Handler("delete", id, NoPayload, "storage")}
       ELSE /\ msg' = <<"no storage path", "">>
            /\ handlers' = handlers \cup {Handler("delete", id, NoPayload, "dbdelete")}
  /\ renderedAt' = now
  /\ UNCHANGED <<now, store, files, nextId, up, mountPc, myFamilyId, items, timers, fnVars, otherVars>>

\* a delete that gives up when storage.remove fails
StorageRemoveReturnStops(h, r) ==
  /\ h.pc = "storage"
  /\ files' = IF r = OkResp THEN files \ {getStoragePathFromPrivateImagePath(h.id)} ELSE files
  /\ msg' = IF IsErr(r) THEN <<"photo delete failed", r[2]>> ELSE msg
  /\ handlers' = IF IsErr(r) THEN handlers \ {h} ELSE Replace(h, [h EXCEPT !.pc = "dbdelete"])
  /\ busyId' = IF IsErr(r) THEN NULL_ID ELSE busyId
  /\ renderedAt' = now
  /\ UNCHANGED <<now, store, nextId, up, mountPc, myFamilyId, items,
                 timers, fnVars, otherVars>>

\* storage.remove([storagePath]) returns
StorageRemoveReturn(h, r) ==
  /\ h.pc = "storage"
  /\ files' = IF r = OkResp THEN files \ {getStoragePathFromPrivateImagePath(h.id)} ELSE files
  /\ msg' = IF IsErr(r) THEN <<"photo delete failed", r[2]>> ELSE msg
  /\ handlers' = Replace(h, [h EXCEPT !.pc = "dbdelete"])
  /\ renderedAt' = now
  /\ UNCHANGED <<now, store, nextId, up, mountPc, myFamilyId, items, busyId,
                 timers, fnVars, otherVars>>

\* the artworks delete returns
DeleteReturn(h, r) ==
  /\ h.pc = "dbdelete"
  /\ store' = IF r = OkResp THEN Without(store, h.id) ELSE store
  /\ handlers' = handlers \ {h}
  /\ busyId' = NULL_ID
  /\ IF IsErr(r)
       THEN /\ msg' = <<FailPrefix(h.op), r[2]>>
            /\ UNCHANGED <<items, timers>>
       ELSE /\ items' = Without(items, h.id)
            /\ msg' = <<"deleted", "">>
            /\ timers' = timers + 1
  /\ renderedAt' = now
  /\ UNCHANGED <<now, files, nextId, up, mountPc, myFamilyId, fnVars, otherVars>>

TimerFire ==
  /\ timers > 0
  /\ timers' = timers - 1
  /\ msg' = NoMsg
  /\ renderedAt' = now
  /\ UNCHANGED <<now, store, files, nextId, up, mountPc, myFamilyId, items, busyId,
                 handlers, fnVars, otherVars>>

----------------------------------------------------------------------------
(* Manage page: deleteArtwork on its own *)

\* a row that upload() did not write (another client, an import) comes into
\* the artworks table without a private_image_path
InsertWithoutPath ==
  /\ mountPc = "closed"
  /\ up.pc = "idle"
  /\ nextId <= Len(SoloSeq)
  /\ store' = With(store, IdSeq[nextId], InsertedArtwork(toISO(now)))
  /\ noPath' = noPath \cup {IdSeq[nextId]}
  /\ nextId' = nextId + 1
  /\ UNCHANGED <<now, files, up, pageVars, fnVars, inviteVars, tokVars, visitVars,
                 parseVars, formVars, session, galleryVars, homeVars>>

DeleteNext ==
  \/ InsertWithoutPath
  \/ \E filled, useNow, madeAtError \in BOOLEAN, parsed \in MadeAtInputs :
       UploadStart(Len(SoloSeq), filled, useNow, madeAtError, parsed)
  \/ \E r \in Resps : UploadProfile(r)
  \/ \E r \in Resps : UploadStorage(r)
  \/ \E r \in Resps : UploadInsert(r)
  \/ OpenManage
  \/ OpenUpload
  \/ \E ok \in BOOLEAN : MountSession(ok)
  \/ \E r \in Resps : MountProfile(r)
  \/ Refresh
  \/ \E h \in handlers, r \in Resps : ServeLoad(h, r)
  \/ \E h \in handlers : ResumeLoad(h)
  \/ \E id \in ArtIds : deleteArtwork(id)
  \/ \E h \in handlers, r \in Resps : StorageRemoveReturn(h, r)
  \/ \E h \in handlers, r \in Resps : DeleteReturn(h, r)
  \/ TimerFire

DeleteSpec == Init /\ [][DeleteNext]_vars

----------------------------------------------------------------------------
(* Manage page: createOrRegenerateInvite *)

\* upsert({user_id, family_id, invite_token}, {onConflict: "user_id"}): the
\* row of that user is written, no other row
upsert(tbl, uid, family_id, next) ==
  With(tbl, uid, [family_id |-> family_id, invite_token |-> next])

\* update({invite_token: next}).eq("family_id", family_id)
updateByFamily(tbl, family_id, next) ==
  [u \in DOMAIN tbl |->
     IF tbl[u].family_id = family_id THEN [tbl[u] EXCEPT !.invite_token = next]
     ELSE tbl[u]]

\* what saveInviteToken returns for the backend's answer r
saveInviteToken(r) ==
  IF IsErr(r) THEN [ok |-> FALSE, error |-> r[2]]
  ELSE IF r = OkResp THEN [ok |-> TRUE, error |-> ""]
  ELSE [ok |-> FALSE, error |-> "save not confirmed"]

SaveResps == Resps \cup {EmptyResp}

\* a button that stays enabled while inviteBusy
createOrRegenerateInviteAnyTime ==
  /\ mountPc \in {"session", "profile", "done"}
  /\ timers < MaxTimers
  /\ inviteBusy' = TRUE
  /\ msg' = <<"invite processing", "">>
  /\ inv' = [InvIdle EXCEPT !.pc = "profile"]
  /\ UNCHANGED <<now, store, files, nextId, up, mountPc, myFamilyId, items, busyId,
                 handlers, timers, renderedAt, fnVars, restVars, profiles, inviteToken>>

createOrRegenerateInvite ==
  /\ mountPc \in {"session", "profile", "done"}
  /\ ~inviteBusy
  /\ timers < MaxTimers
  /\ inviteBusy' = TRUE
  /\ msg' = <<"invite processing", "">>
  /\ inv' = [InvIdle EXCEPT !.pc = "profile"]
  /\ UNCHANGED <<now, store, files, nextId, up, mountPc, myFamilyId, items, busyId,
                 handlers, timers, renderedAt, fnVars, restVars, profiles, inviteToken>>

\* fetchMyProfile returns; the token is generated
InviteProfileReturn(r, next) ==
  /\ inv.pc = "profile"
  /\ IF IsErr(r) \/ profiles[ME].family_id = NO_FAMILY
       THEN /\ msg' = <<"invite failed", IF IsErr(r) THEN r[2] ELSE "no profile">>
            /\ inviteBusy' = FALSE
            /\ inv' = InvIdle
            /\ UNCHANGED myFamilyId
       ELSE /\ myFamilyId' = profiles[ME].family_id
            /\ inv' = [pc |-> "save", next |-> next]
            /\ UNCHANGED <<msg, inviteBusy>>
  /\ UNCHANGED <<now, store, files, nextId, up, mountPc, items, busyId,
                 handlers, timers, renderedAt, fnVars, restVars, profiles, inviteToken>>

\* the upsert of saveInviteToken is applied (or refused) and the handler resumes
InviteSaveReturn(r) ==
  /\ inv.pc = "save"
  /\ profiles' = IF r = OkResp
                    THEN upsert(profiles, ME, profiles[ME].family_id, inv.next)
                    ELSE profiles
  /\ IF saveInviteToken(r).ok
       THEN /\ inviteToken' = inv.next
            /\ inv' = [inv EXCEPT !.pc = "guestbook"]
            /\ UNCHANGED <<msg, inviteBusy>>
       ELSE /\ msg' = <<"invite failed", saveInviteToken(r).error>>
            /\ inviteBusy' = FALSE
            /\ inv' = InvIdle
            /\ UNCHANGED inviteToken
  /\ UNCHANGED <<now, store, files, nextId, up, mountPc, myFamilyId, items, busyId,
                 handlers, timers, renderedAt, fnVars, restVars>>

\* loadGuestbook(next) returns (its own message is replaced at once)
InviteGuestbookReturn(r) ==
  /\ inv.pc = "guestbook"
  /\ msg' = <<"invite ready", "">>
  /\ inviteBusy' = FALSE
  /\ timers' = timers + 1
  /\ inv' = InvIdle
  /\ UNCHANGED <<now, store, files, nextId, up, mountPc, myFamilyId, items, busyId,
                 handlers, renderedAt, fnVars, restVars, profiles, inviteToken>>

\* the other parent's session, on the same page: its createOrRegenerateInvite
\* has stored a token
OtherInvite(next) ==
  /\ profiles' = upsert(profiles, PARTNER, profiles[PARTNER].family_id, next)
  /\ UNCHANGED <<now, store, files, nextId, up, pageVars, fnVars, restVars,
                 inviteToken, inviteBusy, inv>>

\* the other parent's session, on the older manage page
OtherInviteByFamily(next) ==
  /\ profiles' = updateByFamily(profiles, profiles[PARTNER].family_id, next)
  /\ UNCHANGED <<now, store, files, nextId, up, pageVars, fnVars, restVars,
                 inviteToken, inviteBusy, inv>>

\* a second tab of the same user: its createOrRegenerateInvite has stored a
\* token
OtherTabInvite(next) ==
  /\ profiles' = upsert(profiles, ME, profiles[ME].family_id, next)
  /\ UNCHANGED <<now, store, files, nextId, up, pageVars, fnVars, restVars,
                 inviteToken, inviteBusy, inv>>

InviteNext ==
  \/ OpenManage
  \/ \E ok \in BOOLEAN : MountSession(ok)
  \/ \E r \in Resps : MountProfile(r)
  \/ \E h \in handlers, r \in Resps : ServeLoad(h, r)
  \/ \E h \in handlers : ResumeLoad(h)
  \/ createOrRegenerateInvite
  \/ \E r \in Resps, next \in Tokens : InviteProfileReturn(r, next)
  \/ \E r \in SaveResps : InviteSaveReturn(r)
  \/ \E r \in Resps : InviteGuestbookReturn(r)
  \/ \E next \in Tokens : OtherInvite(next)
  \/ \E next \in Tokens : OtherInviteByFamily(next)
  \/ \E next \in Tokens : OtherTabInvite(next)
  \/ TimerFire

InviteSpec == Init /\ [][InviteNext]_vars

----------------------------------------------------------------------------
(* Invite page (visitors): loadAll, loadGuestbook, loadArtworks, submit *)

RECURSIVE trimStart(_)
trimStart(str) ==
  IF str # <<>> /\ Head(str) \in WhiteSpace THEN trimStart(Tail(str)) ELSE str

RECURSIVE trimEnd(_)
trimEnd(str) ==
  IF str # <<>> /\ str[Len(str)] \in WhiteSpace
    THEN trimEnd(SubSeq(str, 1, Len(str) - 1)) ELSE str

trim(str) == trimEnd(trimStart(str))

\* the token test without the trim
tokenInvalidUntrimmed(tok) == tok = <<>> \/ Len(tok) < MIN_TOKEN_LEN

\* !token || token.trim().length < 6
tokenInvalid(tok) == tok = <<>> \/ Len(trim(tok)) < MIN_TOKEN_LEN

\* the form test without the trims
formEmptyUntrimmed(name, content) == name = <<>> \/ content = <<>>

\* !name.trim() || !content.trim()
formEmpty(name, content) == trim(name) = <<>> \/ trim(content) = <<>>

Call(rpc, name, content) ==
  [rpc |-> rpc, resp |-> NoResp, data |-> <<>>, display_name |-> name, content |-> content]

Entry(name, content) == [display_name |-> name, content |-> content]

\* the browser opens /invite/<tok>: the page is rendered with its initial state
OpenInvite(tok) ==
  /\ vPc = "closed"
  /\ vPc' = "effect"
  /\ vToken' = tok
  /\ UNCHANGED <<now, store, files, nextId, up, pageVars, fnVars, inviteVars, tokVars, parseVars, formVars, extraVars,
                 guestbook, vArtworks, vEntries, vName, vContent, vStatus, vLoading,
                 vSubmitBusy, vLoadRes, vCalls, vTimers, vAlert>>

\* the effect on [token]: loadAll() up to its await
loadAll ==
  /\ vPc = "effect"
  /\ vPc' = "open"
  /\ IF tokenInvalid(vToken)
       THEN /\ vLoading' = FALSE
            /\ vStatus' = StInvalid
            /\ vArtworks' = <<>>
            /\ vEntries' = <<>>
            /\ UNCHANGED <<vCalls, vLoadRes>>
       ELSE /\ vLoading' = TRUE
            /\ vStatus' = StLoading
            /\ vCalls' = vCalls \cup {Call(GET_GUESTBOOK, <<>>, <<>>),
                                       Call(GET_ARTWORKS, <<>>, <<>>)}
            /\ vLoadRes' = [guest |-> "pending", art |-> "pending", count |-> 0]
            /\ UNCHANGED <<vArtworks, vEntries>>
  /\ UNCHANGED <<now, store, files, nextId, up, pageVars, fnVars, inviteVars, tokVars, parseVars, formVars, extraVars,
                 guestbook, vToken, vName, vContent, vSubmitBusy, vTimers, vAlert>>

\* the backend answers one of the two reads
ServeRead(c, r, arts) ==
  /\ c.rpc \in {GET_GUESTBOOK, GET_ARTWORKS} /\ c.resp = NoResp
  /\ vCalls' = (vCalls \ {c}) \cup
       {[c EXCEPT !.resp = r,
                  !.data = IF IsErr(r) THEN <<>>
                           ELSE IF c.rpc = GET_GUESTBOOK THEN guestbook ELSE arts]}
  /\ UNCHANGED <<now, store, files, nextId, up, pageVars, fnVars, inviteVars, tokVars, parseVars, formVars, extraVars,
                 guestbook, vPc, vToken, vArtworks, vEntries, vName, vContent, vStatus,
                 vLoading, vSubmitBusy, vLoadRes, vTimers, vAlert>>

\* what loadAll does once both results are there
AfterBoth(res) ==
  IF res.guest = "pending" \/ res.art = "pending"
    THEN [status |-> vStatus, loading |-> vLoading, res |-> res]
  ELSE IF res.guest = "fail" \/ res.art = "fail"
    THEN [status |-> StLoadFailed, loading |-> FALSE, res |-> NoLoadRes]
  ELSE [status |-> IF res.count = 0 THEN StNoArtworks ELSE StNone,
        loading |-> FALSE, res |-> NoLoadRes]

\* loadGuestbook resumes with its answer
ResumeGuestbook(c) ==
  /\ c.rpc = GET_GUESTBOOK /\ c.resp # NoResp
  /\ vCalls' = vCalls \ {c}
  /\ vEntries' = IF IsErr(c.resp) THEN <<>> ELSE c.data
  /\ LET res == [vLoadRes EXCEPT !.guest = IF IsErr(c.resp) THEN "fail" ELSE "ok"]
     IN /\ vStatus' = AfterBoth(res).status
        /\ vLoading' = AfterBoth(res).loading
        /\ vLoadRes' = AfterBoth(res).res
  /\ UNCHANGED <<now, store, files, nextId, up, pageVars, fnVars, inviteVars, tokVars, parseVars, formVars, extraVars,
                 guestbook, vPc, vToken, vArtworks, vName, vContent, vSubmitBusy,
                 vTimers, vAlert>>

\* loadArtworks resumes with its answer
ResumeArtworks(c) ==
  /\ c.rpc = GET_ARTWORKS /\ c.resp # NoResp
  /\ vCalls' = vCalls \ {c}
  /\ vArtworks' = IF IsErr(c.resp) THEN <<>> ELSE c.data
  /\ LET res == [vLoadRes EXCEPT !.art = IF IsErr(c.resp) THEN "fail" ELSE "ok",
                                 !.count = Len(c.data)]
     IN /\ vStatus' = AfterBoth(res).status
        /\ vLoading' = AfterBoth(res).loading
        /\ vLoadRes' = AfterBoth(res).res
  /\ UNCHANGED <<now, store, files, nextId, up, pageVars, fnVars, inviteVars, tokVars, parseVars, formVars, extraVars,
                 guestbook, vPc, vToken, vEntries, vName, vContent, vSubmitBusy,
                 vTimers, vAlert>>

setName(v) ==
  /\ vPc = "open" /\ ~vSubmitBusy /\ v # vName
  /\ vName' = v
  /\ UNCHANGED <<now, store, files, nextId, up, pageVars, fnVars, inviteVars, tokVars, parseVars, formVars, extraVars,
                 guestbook, vPc, vToken, vArtworks, vEntries, vContent, vStatus,
                 vLoading, vSubmitBusy, vLoadRes, vCalls, vTimers, vAlert>>

setContent(v) ==
  /\ vPc = "open" /\ ~vSubmitBusy /\ v # vContent
  /\ vContent' = v
  /\ UNCHANGED <<now, store, files, nextId, up, pageVars, fnVars, inviteVars, tokVars, parseVars, formVars, extraVars,
                 guestbook, vPc, vToken, vArtworks, vEntries, vName, vStatus,
                 vLoading, vSubmitBusy, vLoadRes, vCalls, vTimers, vAlert>>

\* submit() up to its await, or to its early return
submit ==
  /\ vPc = "open"
  /\ ~vSubmitBusy
  /\ Len(guestbook) < MaxEntries
  /\ IF vToken = <<>>
       THEN /\ vAlert' = "invalid link"
            /\ UNCHANGED <<vSubmitBusy, vStatus, vCalls>>
       ELSE IF formEmpty(vName, vContent)
         THEN /\ vAlert' = "name and content required"
              /\ UNCHANGED <<vSubmitBusy, vStatus, vCalls>>
         ELSE /\ vSubmitBusy' = TRUE
              /\ vStatus' = StSubmitting
              /\ vCalls' = vCalls \cup {Call(ADD_ENTRY, trim(vName), trim(vContent))}
              /\ UNCHANGED vAlert
  /\ UNCHANGED <<now, store, files, nextId, up, pageVars, fnVars, inviteVars, tokVars, parseVars, formVars, extraVars,
                 guestbook, vPc, vToken, vArtworks, vEntries, vName, vContent,
                 vLoading, vLoadRes, vTimers>>

\* the backend stores the entry (or refuses) and answers with it
ServeAdd(c, r) ==
  /\ c.rpc = ADD_ENTRY /\ c.resp = NoResp
  /\ guestbook' = IF r = OkResp
                     THEN <<Entry(c.display_name, c.content)>> \o guestbook
                     ELSE guestbook
  /\ vCalls' = (vCalls \ {c}) \cup
       {[c EXCEPT !.resp = r,
                  !.data = IF IsErr(r) THEN <<>>
                           ELSE <<Entry(c.display_name, c.content)>>]}
  /\ UNCHANGED <<now, store, files, nextId, up, pageVars, fnVars, inviteVars, tokVars, parseVars, formVars, extraVars,
                 vPc, vToken, vArtworks, vEntries, vName, vContent, vStatus,
                 vLoading, vSubmitBusy, vLoadRes, vTimers, vAlert>>

\* a submit whose entry is put in the list on failure too
ResumeSubmitOptimistic(c) ==
  /\ c.rpc = ADD_ENTRY /\ c.resp # NoResp
  /\ vCalls' = vCalls \ {c}
  /\ vSubmitBusy' = FALSE
  /\ vEntries' = <<Entry(c.display_name, c.content)>> \o vEntries
  /\ IF IsErr(c.resp)
       THEN /\ vStatus' = <<"submit failed", c.resp[2]>>
            /\ UNCHANGED <<vName, vContent, vTimers>>
       ELSE /\ vName' = <<>>
            /\ vContent' = <<>>
            /\ vStatus' = StPosted
            /\ vTimers' = vTimers + 1
  /\ UNCHANGED <<now, store, files, nextId, up, pageVars, fnVars, inviteVars, tokVars, parseVars, formVars, extraVars,
                 guestbook, vPc, vToken, vArtworks, vLoading, vLoadRes, vAlert>>

\* submit() resumes with the answer of add_guestbook_entry
ResumeSubmit(c) ==
  /\ c.rpc = ADD_ENTRY /\ c.resp # NoResp
  /\ vCalls' = vCalls \ {c}
  /\ vSubmitBusy' = FALSE
  /\ IF IsErr(c.resp)
       THEN /\ vStatus' = <<"submit failed", c.resp[2]>>
            /\ UNCHANGED <<vEntries, vName, vContent, vTimers>>
       ELSE /\ vEntries' = c.data \o vEntries
            /\ vName' = <<>>
            /\ vContent' = <<>>
            /\ vStatus' = StPosted
            /\ vTimers' = vTimers + 1
  /\ UNCHANGED <<now, store, files, nextId, up, pageVars, fnVars, inviteVars, tokVars, parseVars, formVars, extraVars,
                 guestbook, vPc, vToken, vArtworks, vLoading, vLoadRes, vAlert>>

StatusTimerFire ==
  /\ vTimers > 0
  /\ vTimers' = vTimers - 1
  /\ vStatus' = StNone
  /\ UNCHANGED <<now, store, files, nextId, up, pageVars, fnVars, inviteVars, tokVars, parseVars, formVars, extraVars,
                 guestbook, vPc, vToken, vArtworks, vEntries, vName, vContent,
                 vLoading, vSubmitBusy, vLoadRes, vCalls, vAlert>>

VisitNext ==
  \/ \E tok \in RouteTokens : OpenInvite(tok)
  \/ loadAll
  \/ \E c \in vCalls, r \in Resps, arts \in ArtworkLists : ServeRead(c, r, arts)
  \/ \E c \in vCalls : ResumeGuestbook(c)
  \/ \E c \in vCalls : ResumeArtworks(c)
  \/ \E v \in TypedNames : setName(v)
  \/ \E v \in TypedContents : setContent(v)
  \/ submit
  \/ \E c \in vCalls, r \in Resps : ServeAdd(c, r)
  \/ \E c \in vCalls : ResumeSubmit(c)
  \/ StatusTimerFire

VisitSpec == Init /\ [][VisitNext]_vars

----------------------------------------------------------------------------
(* Upload page: parseArtworkMadeAt *)

IsDigit(c) == \E i \in 1..10 : DigitChars[i] = c

DigitVal(c) == CHOOSE v \in 0..9 : DigitChars[v + 1] = c

\* Number(m[k]) of a string of digits
RECURSIVE Number(_)
Number(str) ==
  IF str = <<>> THEN 0
  ELSE Number(SubSeq(str, 1, Len(str) - 1)) * 10 + DigitVal(str[Len(str)])

\* /^(\d{4})-(\d{2})-(\d{2})\s+(\d{2}):(\d{2})$/ matches t
PatternMatches(t) ==
  LET n == Len(t)
  IN /\ n >= 16
     /\ \A i \in {1, 2, 3, 4, 6, 7, 9, 10, n - 4, n - 3, n - 1, n} : IsDigit(t[i])
     /\ t[5] = "-" /\ t[8] = "-" /\ t[n - 2] = ":"
     /\ \A i \in 11..(n - 5) : t[i] \in WhiteSpace

ERR_PATTERN == "format is YYYY-MM-DD 24:00"
ERR_MONTH == "month (mm) is not valid"
ERR_DAY == "day (dd) is not valid"
ERR_MINUTE == "minutes must be 00"
ERR_HOUR == "hours must be 00 to 24"
ERR_DATE == "date is not valid"
Rejected(error) == [iso |-> NULL, error |-> error]

IsLeapYear(y) == (y % 4 = 0 /\ y % 100 # 0) \/ y % 400 = 0

DaysInMonth(y, m) ==
  IF m = 2 THEN (IF IsLeapYear(y) THEN 29 ELSE 28)
  ELSE IF m \in {4, 6, 9, 11} THEN 30
  ELSE 31

\* days from 0001-01-01 to the first day of year y
DaysBeforeYear(y) ==
  365 * (y - 1) + ((y - 1) \div 4) - ((y - 1) \div 100) + ((y - 1) \div 400)

RECURSIVE DaysBeforeMonth(_, _)
DaysBeforeMonth(y, m) ==
  IF m = 1 THEN 0 ELSE DaysBeforeMonth(y, m - 1) + DaysInMonth(y, m - 1)

HOURS_PER_DAY == 24

\* new Date(year, monthIndex, day, 0, 0, 0, 0) as a number of local hours: a
\* year 0..99 means 1900 + year, and a day past the end of the month runs
\* on into the next month
NewDate(yyyy, monthIndex, dd) ==
  LET yr == IF yyyy >= 0 /\ yyyy <= 99 THEN 1900 + yyyy ELSE yyyy
  IN (DaysBeforeYear(yr) + DaysBeforeMonth(yr, monthIndex + 1) + (dd - 1)) * HOURS_PER_DAY

\* the hour test made before the minute test
parseArtworkMadeAtHourFirst(input) ==
  LET t == trim(input)
      n == Len(t)
  IN IF ~PatternMatches(t) THEN Rejected(ERR_PATTERN)
     ELSE
       LET yyyy == Number(SubSeq(t, 1, 4))
           mm == Number(SubSeq(t, 6, 7))
           dd == Number(SubSeq(t, 9, 10))
           hh == Number(SubSeq(t, n - 4, n - 3))
           mi == Number(SubSeq(t, n - 1, n))
       IN IF mm < 1 \/ mm > 12 THEN Rejected(ERR_MONTH)
          ELSE IF dd < 1 \/ dd > 31 THEN Rejected(ERR_DAY)
          ELSE IF ~(hh = 24 \/ (hh >= 0 /\ hh <= 23)) THEN Rejected(ERR_HOUR)
          ELSE IF mi # 0 THEN Rejected(ERR_MINUTE)
          ELSE
            LET base == NewDate(yyyy, mm - 1, dd)
            IN IF hh = 24
                 THEN [iso |-> toISO(base + HOURS_PER_DAY), error |-> NO_ERROR]
                 ELSE [iso |-> toISO(base + hh), error |-> NO_ERROR]

\* The value is { iso, error }; iso is the instant in local hours.  The date
\* built from four digits and ranges 1..12, 1..31 is never NaN.
parseArtworkMadeAt(input) ==
  LET t == trim(input)
      n == Len(t)
  IN IF ~PatternMatches(t) THEN Rejected(ERR_PATTERN)
     ELSE
       LET yyyy == Number(SubSeq(t, 1, 4))
           mm == Number(SubSeq(t, 6, 7))
           dd == Number(SubSeq(t, 9, 10))
           hh == Number(SubSeq(t, n - 4, n - 3))
           mi == Number(SubSeq(t, n - 1, n))
       IN IF mm < 1 \/ mm > 12 THEN Rejected(ERR_MONTH)
          ELSE IF dd < 1 \/ dd > 31 THEN Rejected(ERR_DAY)
          ELSE IF mi # 0 THEN Rejected(ERR_MINUTE)
          ELSE IF ~(hh = 24 \/ (hh >= 0 /\ hh <= 23)) THEN Rejected(ERR_HOUR)
          ELSE
            LET base == NewDate(yyyy, mm - 1, dd)
            IN IF hh = 24
                 THEN [iso |-> toISO(base + HOURS_PER_DAY), error |-> NO_ERROR]
                 ELSE [iso |-> toISO(base + hh), error |-> NO_ERROR]

TypedShapes ==
  {"plain", "padded", "T", "joined", "slashes", "seconds", "date only", "abc"}
TypedYears == {99, 100, 2023, 2024}
TypedMonths == {0, 1, 2, 4, 12, 13}
TypedDays == {0, 1, 15, 28, 29, 30, 31, 32}
TypedHours == {0, 10, 23, 24, 25}
TypedMinutes == {0, 30}

TypedInputs ==
  [y : TypedYears, mo : TypedMonths, d : TypedDays, h : TypedHours,
   mi : TypedMinutes, shape : TypedShapes]

ParseInit ==
  /\ MainInit
  /\ TokIdle
  /\ VisitInit
  /\ FormIdle
  /\ ExtraIdle
  /\ fnArt = [is_public |-> FALSE, public_until |-> NULL]
  /\ fnNow = 0
  /\ fnRes = <<"none">>
  /\ pIn \in TypedInputs
  /\ pText = Typed(pIn)
  /\ pRes = [iso |-> NULL, error |-> "not called"]

ApplyParse ==
  /\ pRes.error = "not called"
  /\ pRes' = parseArtworkMadeAt(pText)
  /\ UNCHANGED <<now, store, files, nextId, up, pageVars, fnVars, inviteVars,
                 tokVars, visitVars, formVars, extraVars, pIn, pText>>

ParseNext == ApplyParse

ParseSpec == ParseInit /\ [][ParseNext]_vars

----------------------------------------------------------------------------
(* Upload page: the form and upload() *)

\* texts typed into the made-at field: 10:00, 24:00 and 25:00 of a day, and
\* letters
FormTypedInputs ==
  [y : {TODAY.y}, mo : {TODAY.mo}, d : {TODAY.d}, h : {10, 24, 25}, mi : {0},
   shape : {"plain", "abc"}]

FormTexts == {Typed(in) : in \in FormTypedInputs}

\* busy is true from upload()'s setBusy(true) to the setBusy(false) of each
\* way out
uploadBusy == up.pc # "idle"

\* the effect on [useNow, madeAtInput]; React runs it before the next event
madeAtErrorEffect(useNow, madeAtInput) ==
  IF useNow THEN NO_ERROR ELSE parseArtworkMadeAt(madeAtInput).error

\* kidName, title and file are typed or cleared (inputs disabled while busy)
setFilled(b) ==
  /\ ~uploadBusy
  /\ form' = [form EXCEPT !.filled = b]
  /\ UNCHANGED <<now, store, files, nextId, up, pageVars, fnVars, inviteVars,
                 tokVars, visitVars, parseVars, extraVars>>

\* the "current time" checkbox
setUseNow(b) ==
  /\ ~uploadBusy
  /\ form' = [form EXCEPT !.useNow = b,
                          !.madeAtError = madeAtErrorEffect(b, form.madeAtInput)]
  /\ UNCHANGED <<now, store, files, nextId, up, pageVars, fnVars, inviteVars,
                 tokVars, visitVars, parseVars, extraVars>>

\* the made-at text field (disabled while busy or useNow)
setMadeAtInput(text) ==
  /\ ~uploadBusy
  /\ ~form.useNow
  /\ form' = [form EXCEPT !.madeAtInput = text,
                          !.madeAtError = madeAtErrorEffect(form.useNow, text)]
  /\ UNCHANGED <<now, store, files, nextId, up, pageVars, fnVars, inviteVars,
                 tokVars, visitVars, parseVars, extraVars>>

\* upload() validating the text whatever the checkbox says
madeAtAlwaysParsed(useNow, madeAtInput, t) == parseArtworkMadeAt(madeAtInput)

\* upload(): the value of artwork_made_at, or the error it alerts and returns on
madeAt(useNow, madeAtInput, t) ==
  IF useNow THEN [iso |-> toISO(t), error |-> NO_ERROR]
  ELSE parseArtworkMadeAt(madeAtInput)

\* the button is enabled (canSubmit) and upload() reaches its remote calls
Submittable ==
  /\ canSubmit(form.filled, form.useNow, form.madeAtError # NO_ERROR)
  /\ madeAt(form.useNow, form.madeAtInput, now).error = NO_ERROR

\* upload() pressed on the form; the button is disabled unless canSubmit, and
\* a text that fails the validator makes upload() alert and return
upload(limit) ==
  /\ Submittable
  /\ UploadStart(limit, form.filled, form.useNow, form.madeAtError # NO_ERROR,
                 getTime(madeAt(form.useNow, form.madeAtInput, now).iso))

FormNext ==
  \/ \E d \in {1} : Tick(d)
  \/ \E b \in BOOLEAN : setFilled(b)
  \/ \E b \in BOOLEAN : setUseNow(b)
  \/ \E text \in FormTexts : setMadeAtInput(text)
  \/ upload(Len(IdSeq))
  \/ \E r \in Resps : UploadProfile(r)
  \/ \E r \in Resps : UploadStorage(r)
  \/ \E r \in Resps : UploadInsert(r)

FormSpec == Init /\ [][FormNext]_vars

----------------------------------------------------------------------------
(* makeToken *)

Bytes == 0..(BYTE_VALUES - 1)

\* the byte used as an index without the modulo: out of range past the
\* alphabet, and the string "undefined" is appended
tokenCharsNoWrap(b) ==
  IF b < Len(alphabet) THEN <<alphabet[b + 1]>> ELSE Undefined

\* alphabet[bytes[i] % alphabet.length], as the string appended to out
tokenChars(b) == <<alphabet[(b % Len(alphabet)) + 1]>>

\* The arrays crypto.getRandomValues may leave: every byte value at every
\* index, the other indices holding `fill`
ByteArrays(len) ==
  {[i \in 1..len |-> IF i = j THEN b ELSE fill] :
     j \in 1..len, b \in Bytes, fill \in {0}}

\* makeToken(len) up to the loop: bytes = new Uint8Array(len), filled
TokInit ==
  /\ MainInit
  /\ VisitInit
  /\ ParseIdle
  /\ FormIdle
  /\ ExtraIdle
  /\ fnArt = [is_public |-> FALSE, public_until |-> NULL]
  /\ fnNow = 0
  /\ fnRes = <<"none">>
  /\ tokLen \in {DEFAULT_LEN, INVITE_LEN}
  /\ tokBytes \in ByteArrays(tokLen)
  /\ tokOut = <<>>
  /\ tokIter = 0

\* one iteration of the loop; i is the number of iterations made so far
makeTokenLoop ==
  /\ tokIter < Len(tokBytes)
  /\ tokOut' = tokOut \o tokenChars(tokBytes[tokIter + 1])
  /\ tokIter' = tokIter + 1
  /\ UNCHANGED <<now, store, files, nextId, up, pageVars, fnVars, inviteVars,
                 visitVars, parseVars, formVars, extraVars, tokLen, tokBytes>>

TokNext == makeTokenLoop

TokSpec == TokInit /\ [][TokNext]_vars

----------------------------------------------------------------------------
(* The pure functions applied to arbitrary arguments *)

FnArts ==
  {[is_public |-> p, public_until |-> u] :
     p \in BOOLEAN, u \in {NULL} \cup {toISO(t) : t \in 0..FnMaxT}}

FnInit ==
  /\ MainInit
  /\ RestInit
  /\ fnArt \in FnArts
  /\ fnNow \in 0..FnMaxT
  /\ fnRes = <<"none">>

ApplyStatusBadge ==
  /\ fnRes' = <<"badge", isExpired(fnArt, fnNow), StatusBadge(fnArt, fnNow)>>
  /\ UNCHANGED <<now, store, files, nextId, up, pageVars, fnArt, fnNow, otherVars>>

ApplyDaysLeft ==
  /\ fnRes' = <<"left", daysLeft(fnArt.public_until, fnNow),
                leftText(daysLeft(fnArt.public_until, fnNow))>>
  /\ UNCHANGED <<now, store, files, nextId, up, pageVars, fnArt, fnNow, otherVars>>

FnNext == ApplyStatusBadge \/ ApplyDaysLeft

FnSpec == FnInit /\ [][FnNext]_vars

----------------------------------------------------------------------------
(* The system *)

TickSteps == {1, TwoWeeks}

\* The steps of the manage page that need no clock
PageNext ==
  \/ \E r \in Resps : UploadProfile(r)
  \/ \E r \in Resps : UploadStorage(r)
  \/ \E r \in Resps : UploadInsert(r)
  \/ OpenManage
  \/ OpenUpload
  \/ \E ok \in BOOLEAN : MountSession(ok)
  \/ \E r \in Resps : MountProfile(r)
  \/ Refresh
  \/ \E h \in handlers, r \in Resps : ServeLoad(h, r)
  \/ \E h \in handlers : ResumeLoad(h)
  \/ \E id \in ArtIds : togglePublic(id)
  \/ \E h \in handlers, r \in Resps : UpdateReturn(h, r)
  \/ \E id \in ArtIds : deleteArtwork(id)
  \/ \E h \in handlers, r \in Resps : StorageRemoveReturn(h, r)
  \/ \E h \in handlers, r \in Resps : DeleteReturn(h, r)
  \/ TimerFire

\* One artwork, with the clock: the whole life of an artwork
Next ==
  \/ \E d \in TickSteps : Tick(d)
  \/ \E filled, useNow, madeAtError \in BOOLEAN, parsed \in MadeAtInputs :
       UploadStart(Len(SoloSeq), filled, useNow, madeAtError, parsed)
  \/ Rerender
  \/ \E id \in ArtIds : extendTwoWeeks(id)
  \/ PageNext

Spec == Init /\ [][Next]_vars

\* Two artworks at one instant: handlers of different rows running together
RowsNext ==
  \/ \E filled, useNow, madeAtError \in BOOLEAN, parsed \in MadeAtInputs :
       UploadStart(Len(IdSeq), filled, useNow, madeAtError, parsed)
  \/ PageNext

RowsSpec == Init /\ [][RowsNext]_vars

\* a remote call of the mutation handler of row id returns, or its result is
\* taken up by the handler
MutationReturn(id) ==
  \E h \in handlers :
    /\ h.id = id /\ h.op \in Mutations
    /\ \/ \E r \in Resps : UpdateReturn(h, r)
       \/ \E r \in Resps : ServeLoad(h, r)
       \/ ResumeLoad(h)
       \/ \E r \in Resps : StorageRemoveReturn(h, r)
       \/ \E r \in Resps : DeleteReturn(h, r)

\* One artwork with the clock, every remote call of a mutation handler
\* returning in the end
LiveSpec == Spec /\ \A id \in ArtIds : WF_vars(MutationReturn(id))

\* another session of the family has un-published the artwork with its own
\* togglePublic
OtherUnpublish(id) ==
  /\ id \in DOMAIN store
  /\ store[id].is_public
  /\ store' = [store EXCEPT ![id] = Updated(@, TogglePayload(@, now))]
  /\ UNCHANGED <<now, files, nextId, up, pageVars, fnVars, otherVars>>

\* One artwork, the clock, and a second session of the family
SessionsNext ==
  \/ Next
  \/ \E id \in ArtIds : OtherUnpublish(id)

SessionsSpec == Init /\ [][SessionsNext]_vars

----------------------------------------------------------------------------
(* Gallery page, home page and the session *)

SweepOutcomes == {"ok", "error", "threw"}

\* the server function expire_public_artworks: un-publishes what has expired
expirePublicArtworks(tbl, t) ==
  [id \in DOMAIN tbl |->
     IF isExpired(tbl[id], t)
       THEN [tbl[id] EXCEPT !.is_public = FALSE, !.public_until = NULL]
       ELSE tbl[id]]

\* from("artworks").select(...).eq("is_public", true)
PublicRows(tbl) == [id \in {i \in DOMAIN tbl : tbl[i].is_public} |-> tbl[id]]

\* a session of some family has uploaded an artwork and published it
PublishedElsewhere ==
  /\ mountPc = "closed"
  /\ up.pc = "idle"
  /\ nextId <= Len(SoloSeq)
  /\ files' = files \cup {IdSeq[nextId]}
  /\ store' = With(store, IdSeq[nextId],
                    Updated(InsertedArtwork(toISO(now)),
                            TogglePayload(InsertedArtwork(toISO(now)), now)))
  /\ nextId' = nextId + 1
  /\ UNCHANGED <<now, up, pageVars, fnVars, otherVars>>

\* the browser opens /gallery: the page is constructed, run() awaits getSession
OpenGallery ==
  /\ gPc = "closed"
  /\ gPc' = "session"
  /\ gItems' = <<>>
  /\ gMsg' = NoMsg
  /\ gLoading' = TRUE
  /\ gSweep' = "none"
  /\ UNCHANGED <<now, store, files, nextId, up, pageVars, sideVars, session, homeVars>>

\* the browser leaves the gallery page
CloseGallery ==
  /\ gPc \in {"open", "login"}
  /\ gPc' = "closed"
  /\ UNCHANGED <<now, store, files, nextId, up, pageVars, sideVars, session, homeVars,
                 gItems, gMsg, gLoading, gSweep>>

\* getSession returns; with a session load() starts and calls the sweep
GallerySession ==
  /\ gPc = "session"
  /\ IF ~session
       THEN /\ gPc' = "login"
            /\ UNCHANGED <<gMsg, gLoading>>
       ELSE /\ gPc' = "sweep"
            /\ gLoading' = TRUE
            /\ gMsg' = <<"loading", "">>
  /\ UNCHANGED <<now, store, files, nextId, up, pageVars, sideVars, session, homeVars,
                 gItems, gSweep>>

\* a load() that gives up when the sweep fails
GallerySweepReturnStops(out) ==
  /\ gPc = "sweep"
  /\ store' = IF out = "ok" THEN expirePublicArtworks(store, now) ELSE store
  /\ gSweep' = out
  /\ gPc' = IF out = "ok" THEN "query" ELSE "open"
  /\ gMsg' = IF out = "ok" THEN gMsg ELSE <<"sweep failed", "">>
  /\ gLoading' = IF out = "ok" THEN gLoading ELSE FALSE
  /\ UNCHANGED <<now, files, nextId, up, pageVars, sideVars, session, homeVars, gItems>>

\* rpc("expire_public_artworks") returns, with an error or throws; load()
\* goes on to the artworks query
GallerySweepReturn(out) ==
  /\ gPc = "sweep"
  /\ store' = IF out = "ok" THEN expirePublicArtworks(store, now) ELSE store
  /\ gSweep' = out
  /\ gPc' = "query"
  /\ UNCHANGED <<now, files, nextId, up, pageVars, sideVars, session, homeVars,
                 gItems, gMsg, gLoading>>

\* the artworks query returns; load() and run() finish
GalleryQueryReturn(r) ==
  /\ gPc = "query"
  /\ IF IsErr(r)
       THEN /\ gMsg' = <<"query failed", r[2]>>
            /\ gItems' = <<>>
       ELSE /\ gItems' = PublicRows(store)
            /\ gMsg' = NoMsg
  /\ gLoading' = FALSE
  /\ gPc' = "open"
  /\ UNCHANGED <<now, store, files, nextId, up, pageVars, sideVars, session, homeVars,
                 gSweep>>

\* the browser opens /: the home page is constructed, init() awaits getSession
OpenHome ==
  /\ hPc = "closed"
  /\ hPc' = "init"
  /\ isLoggedIn' = FALSE
  /\ UNCHANGED <<now, store, files, nextId, up, pageVars, sideVars, session, galleryVars>>

\* getSession returns on the home page
HomeInit ==
  /\ hPc = "init"
  /\ hPc' = "open"
  /\ isLoggedIn' = session
  /\ UNCHANGED <<now, store, files, nextId, up, pageVars, sideVars, session, galleryVars>>

\* the browser leaves the home page
CloseHome ==
  /\ hPc \in {"open", "login"}
  /\ hPc' = "closed"
  /\ UNCHANGED <<now, store, files, nextId, up, pageVars, sideVars, session, galleryVars,
                 isLoggedIn>>

\* the session ends (sign-out, expiry): the auth client calls the
\* onAuthStateChange listeners of the open pages with no session. The gallery
\* page and the home page have one; the manage page has none.
SessionEnds ==
  /\ session
  /\ session' = FALSE
  /\ gPc' = IF gPc \in {"session", "sweep", "query", "open"} THEN "login" ELSE gPc
  /\ hPc' = IF hPc \in {"init", "open"} THEN "login" ELSE hPc
  /\ isLoggedIn' = IF hPc \in {"init", "open"} THEN FALSE ELSE isLoggedIn
  /\ UNCHANGED <<now, store, files, nextId, up, pageVars, sideVars,
                 gItems, gMsg, gLoading, gSweep>>

\* the user signs in again on the login page
SessionStarts ==
  /\ ~session
  /\ session' = TRUE
  /\ isLoggedIn' = IF hPc \in {"init", "open"} THEN TRUE ELSE isLoggedIn
  /\ UNCHANGED <<now, store, files, nextId, up, pageVars, sideVars, galleryVars, hPc>>

GalleryNext ==
  \/ \E d \in TickSteps : Tick(d)
  \/ PublishedElsewhere
  \/ OpenGallery
  \/ CloseGallery
  \/ GallerySession
  \/ \E out \in SweepOutcomes : GallerySweepReturn(out)
  \/ \E r \in Resps : GalleryQueryReturn(r)
  \/ OpenHome
  \/ HomeInit
  \/ CloseHome
  \/ SessionEnds
  \/ SessionStarts
  \/ OpenManage
  \/ MountSession(session)
  \/ \E r \in Resps : MountProfile(r)
  \/ \E h \in handlers, r \in Resps : ServeLoad(h, r)
  \/ \E h \in handlers : ResumeLoad(h)

GallerySpec == Init /\ [][GalleryNext]_vars

----------------------------------------------------------------------------
(* Properties *)

Private(rec) == ~rec.is_public /\ rec.public_until = NULL

\* C1: in every reachable state of the store, and of the list the manage page
\* holds, an artwork with is_public = false has public_until = null.
PrivateHasNoDeadline ==
  /\ \A id \in DOMAIN store : ~store[id].is_public => store[id].public_until = NULL
  /\ \A id \in DOMAIN items : ~items[id].is_public => items[id].public_until = NULL

\* an artwork that was public has been un-published by togglePublic
UnpublishedWitness ==
  \E h \in handlers :
    /\ h.op = "toggle" /\ ~h.payload.is_public /\ h.pc = "load"
    /\ h.id \in DOMAIN store /\ h.id \in DOMAIN items
    /\ items[h.id].is_public /\ Private(store[h.id])

\* C2: when togglePublic was called on a row shown as private and its update
\* succeeds on a stored artwork, the stored record has is_public = true and
\* public_until = (time of the call) + 14 days, and reads as PublicActive.
PublishSetsTwoWeeks ==
  [][\A h \in handlers :
       (/\ h.op = "toggle" /\ h.payload.is_public /\ h.pc = "update"
        /\ h.id \in DOMAIN store
        /\ UpdateReturn(h, OkResp))
       => /\ store'[h.id].is_public
          /\ store'[h.id].public_until = toISO(h.started + TwoWeeks)
          /\ StatusBadge(store'[h.id], now') = "PublicActive"]_vars

\* a publish has been stored, some time after the call
PublishedWitness ==
  \E h \in handlers :
    /\ h.op = "toggle" /\ h.payload.is_public /\ h.pc = "load"
    /\ h.started < now
    /\ h.id \in DOMAIN store
    /\ store[h.id].is_public /\ store[h.id].public_until = toISO(h.started + TwoWeeks)

\* C3: when togglePublic was called on a row shown as public (active or
\* expired) and its update succeeds on a stored artwork, the stored record
\* has is_public = false and public_until = null (Private).
UnpublishClearsDeadline ==
  [][\A h \in handlers :
       (/\ h.op = "toggle" /\ ~h.payload.is_public /\ h.pc = "update"
        /\ h.id \in DOMAIN store
        /\ UpdateReturn(h, OkResp))
       => /\ Private(store'[h.id])
          /\ StatusBadge(store'[h.id], now') = "Private"]_vars

\* an expired artwork has been un-published
UnpublishedExpiredWitness ==
  \E h \in handlers :
    /\ h.op = "toggle" /\ ~h.payload.is_public /\ h.pc = "load"
    /\ h.id \in DOMAIN store /\ h.id \in DOMAIN items
    /\ StatusBadge(items[h.id], h.started) = "PublicExpired"
    /\ Private(store[h.id])

\* C4: when the update of extendTwoWeeks succeeds on a stored artwork that is
\* PublicExpired, public_until becomes (time of the call) + 14 days, is_public
\* stays true and the record reads as PublicActive again.
ExtendResetsDeadline ==
  [][\A h \in handlers :
       (/\ h.op = "extend" /\ h.pc = "update"
        /\ h.id \in DOMAIN store
        /\ StatusBadge(store[h.id], now) = "PublicExpired"
        /\ UpdateReturn(h, OkResp))
       => /\ store[h.id].is_public /\ store'[h.id].is_public
          /\ store'[h.id].public_until = toISO(h.started + TwoWeeks)
          /\ StatusBadge(store'[h.id], now') = "PublicActive"]_vars

\* an expired artwork has been extended
ExtendedWitness ==
  \E h \in handlers :
    /\ h.op = "extend" /\ h.pc = "load"
    /\ h.id \in DOMAIN store /\ h.id \in DOMAIN items
    /\ StatusBadge(items[h.id], h.started) = "PublicExpired"
    /\ store[h.id].public_until = toISO(h.started + TwoWeeks)
    /\ StatusBadge(store[h.id], now) = "PublicActive"

\* the extend button of row id as rendered: disabled={!extendEnabled || busy}
ExtendButtonEnabled(id) == extendEnabled(items[id], renderedAt) /\ ~busy(id)

\* C5: the extend button of a row is enabled only when the row is exactly
\* PublicExpired (is_public and public_until <= now) and not busy, and
\* extendTwoWeeks is only ever started for such a row.
ExtendOnlyWhenExpired ==
  /\ [](\A id \in DOMAIN items :
          /\ ExtendButtonEnabled(id)
               => /\ items[id].is_public /\ items[id].public_until # NULL
                  /\ getTime(items[id].public_until) <= now
                  /\ busyId # id
          /\ StatusBadge(items[id], renderedAt) \in {"Private", "PublicActive"}
               => ~ExtendButtonEnabled(id))
  /\ [][\A h \in handlers' \ handlers :
          (h.op = "extend" /\ h.pc = "update")
            => /\ h.id \in DOMAIN items
               /\ StatusBadge(items[h.id], now) = "PublicExpired"
               /\ busyId # h.id]_vars

\* extendTwoWeeks is running for a row, whose button is now disabled
ExtendStartedWitness ==
  \E h \in handlers :
    /\ h.op = "extend" /\ h.pc = "update"
    /\ h.id \in DOMAIN items
    /\ extendEnabled(items[h.id], renderedAt) /\ ~ExtendButtonEnabled(h.id)

\* C6: isExpired is true exactly when is_public, public_until is non-null and
\* public_until <= now; every (is_public, public_until, now) gets exactly one
\* of the three states, and a record that is not public is never expired.
IsExpiredClassifies ==
  fnRes[1] = "badge" =>
    LET due == fnArt.public_until # NULL /\ getTime(fnArt.public_until) <= fnNow
    IN /\ fnRes[2] = (fnArt.is_public /\ due)
       /\ (fnRes[3] = "Private") = ~fnArt.is_public
       /\ (fnRes[3] = "PublicExpired") = (fnArt.is_public /\ due)
       /\ (fnRes[3] = "PublicActive") = (fnArt.is_public /\ ~due)
       /\ fnRes[3] \in {"Private", "PublicActive", "PublicExpired"}
       /\ ~fnArt.is_public => ~fnRes[2]

\* a record that is not public but has a past deadline was classified
PrivatePastDeadlineWitness ==
  /\ fnRes[1] = "badge"
  /\ ~fnArt.is_public /\ fnArt.public_until # NULL
  /\ getTime(fnArt.public_until) <= fnNow
  /\ fnRes[3] = "Private"

\* C7: daysLeft is the ceiling of (public_until - now) / 1 day (36 hours give
\* 2, a past deadline gives a value <= 0), and the gallery shows every value
\* <= 0 as 'ends today' and never a negative number of days.
DaysLeftIsCeiling ==
  (fnRes[1] = "left" /\ fnArt.public_until # NULL) =>
    LET t == getTime(fnArt.public_until) - fnNow
        d == fnRes[2][1]
    IN /\ (d - 1) * Day < t /\ t <= d * Day
       /\ t * TICK_MS = 36 * 60 * 60 * 1000 => d = 2
       /\ t < 0 => d <= 0
       /\ d <= 0 => fnRes[3] = <<"ends today">>
       /\ d > 0 => fnRes[3] = <<"days left", d>>
       /\ Len(fnRes[3]) = 2 => fnRes[3][2] > 0

\* a deadline 36 hours in the past: -1 day, shown as 'ends today'
NegativeDaysWitness ==
  /\ fnRes[1] = "left" /\ fnArt.public_until # NULL
  /\ (fnNow - getTime(fnArt.public_until)) * TICK_MS = 36 * 60 * 60 * 1000
  /\ fnRes[2] = <<-1>>
  /\ fnRes[3] = <<"ends today">>

\* C8: an upload with useNow stores a Private artwork; a successful publish of
\* it stores public_until = call time + 14 days (PublicActive); the clock
\* passing that deadline changes no stored value and the record then reads
\* PublicExpired; a successful extend stores the new call time + 14 days and
\* the record reads PublicActive again.
Lifecycle ==
  [][/\ (up.pc = "insert" /\ up.useNow /\ UploadInsert(OkResp))
          => /\ up.id \notin DOMAIN store
             /\ Private(store'[up.id])
             /\ store'[up.id].artwork_made_at # NULL
     /\ \A h \in handlers :
          (/\ h.op = "toggle" /\ h.pc = "update" /\ h.id \in DOMAIN store
           /\ Private(store[h.id]) /\ h.payload.is_public
           /\ UpdateReturn(h, OkResp))
          => /\ store'[h.id] = [store[h.id] EXCEPT !.is_public = TRUE,
                                   !.public_until = toISO(h.started + TwoWeeks)]
             /\ StatusBadge(store'[h.id], now') = "PublicActive"
     /\ \A id \in DOMAIN store :
          (/\ now' > now
           /\ StatusBadge(store[id], now) = "PublicActive"
           /\ store[id].public_until # NULL
           /\ getTime(store[id].public_until) <= now')
          => /\ store' = store
             /\ StatusBadge(store'[id], now') = "PublicExpired"
     /\ \A h \in handlers :
          (/\ h.op = "extend" /\ h.pc = "update" /\ h.id \in DOMAIN store
           /\ StatusBadge(store[h.id], now) = "PublicExpired"
           /\ UpdateReturn(h, OkResp))
          => /\ store'[h.id] = [store[h.id] EXCEPT
                                   !.public_until = toISO(h.started + TwoWeeks)]
             /\ StatusBadge(store'[h.id], now') = "PublicActive"]_vars

\* an artwork uploaded with useNow has been published, has expired two weeks
\* later and has then been extended
LifecycleWitness ==
  \E h \in handlers :
    /\ h.op = "extend" /\ h.pc = "load"
    /\ h.id \in DOMAIN store /\ h.id \in DOMAIN items
    /\ getTime(store[h.id].artwork_made_at) >= 0
    /\ items[h.id].is_public
    /\ getTime(items[h.id].public_until) =
         getTime(store[h.id].artwork_made_at) + TwoWeeks
    /\ getTime(items[h.id].public_until) <= h.started
    /\ store[h.id].public_until = toISO(h.started + TwoWeeks)
    /\ StatusBadge(store[h.id], now) = "PublicActive"

\* C9: when the update of togglePublic / extendTwoWeeks or the record deletion
\* of deleteArtwork fails, the list is left as it was, the backend's message is
\* shown, the handler ends and nothing is written.
WriteFailureLeavesList ==
  [][\A h \in handlers : \A e \in Errors :
       (\/ (h.pc = "update" /\ UpdateReturn(h, ErrResp(e)))
        \/ (h.pc = "dbdelete" /\ DeleteReturn(h, ErrResp(e))))
       => /\ items' = items
          /\ msg' = <<FailPrefix(h.op), e>>
          /\ handlers' = handlers \ {h}
          /\ store' = store /\ files' = files]_vars

\* a failed write is being shown while the list still holds the row
WriteFailedWitness ==
  /\ msg[2] \in Errors
  /\ msg[1] \in {FailPrefix("toggle"), FailPrefix("extend"), FailPrefix("delete")}
  /\ items # <<>>
  /\ handlers = {}

\* C10: at most one mutation is in flight per row: while a mutation on a row
\* is in flight no second one is started on that row, whatever happens on
\* the other rows.
OneMutationPerRow ==
  \A h1, h2 \in handlers :
    (h1.op \in Mutations /\ h2.op \in Mutations /\ h1.id = h2.id) => h1 = h2

\* the invite tokens stored on the profile rows of a family
StoredTokens(fam) ==
  {profiles[u].invite_token : u \in {x \in Users : profiles[x].family_id = fam}}
    \ {NULL_TOKEN}

\* C11: at every moment at most one invite token is stored for a family:
\* after a successful generate / regenerate the new token is the only one on
\* the family's profile rows, also when the family has several rows.
OneTokenPerFamily ==
  Cardinality(StoredTokens(FAMILY)) <= 1

\* the alphabet as the claim describes it
UpperCase ==
  {"A", "B", "C", "D", "E", "F", "G", "H", "I", "J", "K", "L", "M", "N", "O", "P",
   "Q", "R", "S", "T", "U", "V", "W", "X", "Y", "Z"}

LowerCase ==
  {"a", "b", "c", "d", "e", "f", "g", "h", "i", "j", "k", "l", "m", "n", "o", "p",
   "q", "r", "s", "t", "u", "v", "w", "x", "y", "z"}

Digits2to9 == {"2", "3", "4", "5", "6", "7", "8", "9"}

TokenAlphabet == (UpperCase \ {"I", "O"}) \cup (LowerCase \ {"l"}) \cup Digits2to9

makeTokenDone == tokLen > 0 /\ tokIter = Len(tokBytes)

\* C12: makeToken(len), for len = 24 and len = 28 and every byte value at
\* every index, returns exactly len characters, all of them upper-case
\* letters other than I and O, lower-case letters other than l, or digits 2-9.
TokenLengthAndAlphabet ==
  /\ \A i \in 1..Len(tokOut) : tokOut[i] \in TokenAlphabet
  /\ Len(tokOut) = tokIter
  /\ makeTokenDone => Len(tokOut) = tokLen

\* a token of 28 characters has been made from an array holding the byte 255
TokenDoneWitness ==
  /\ makeTokenDone
  /\ tokLen = 28 /\ Len(tokOut) = 28
  /\ \E i \in 1..28 : tokBytes[i] = 255 /\ tokOut[i] = "d"

\* the number of byte values that select the symbol c
Selecting(c) == Cardinality({b \in Bytes : tokenChars(b) = <<c>>})

\* C13: every symbol of the alphabet is selected by the same number of the
\* 256 byte values, so every character of a token is uniformly distributed.
TokenCharsUniform ==
  \A i \in 1..Len(tokOut) : \A c \in TokenAlphabet :
    Selecting(tokOut[i]) = Selecting(c)

ReadsInFlight == {c \in vCalls : c.rpc \in {GET_GUESTBOOK, GET_ARTWORKS}}

AddsInFlight == {c \in vCalls : c.rpc = ADD_ENTRY}

\* the calls a step issues
Issued == {c \in vCalls' \ vCalls : c.resp = NoResp}

\* C14: when the route token is missing or shorter than 6 characters after
\* trimming, loadAll sets the invalid-link status, empties artworks and
\* entries, sets loading to false and issues neither of the two reads.
InvalidTokenShortCircuits ==
  /\ [][(/\ vPc = "effect" /\ vPc' = "open"
          /\ (vToken = <<>> \/ Len(trim(vToken)) < 6))
         => /\ vStatus' = StInvalid
            /\ vArtworks' = <<>> /\ vEntries' = <<>>
            /\ vLoading' = FALSE
            /\ vCalls' = vCalls]_vars
  /\ []((vToken = <<>> \/ Len(trim(vToken)) < 6) => ReadsInFlight = {})

\* loadAll has refused a token of 7 characters, 3 after trimming
PaddedTokenWitness ==
  /\ vPc = "open"
  /\ Len(vToken) = 7 /\ Len(trim(vToken)) = 3
  /\ vStatus = StInvalid /\ ~vLoading /\ vCalls = {}

\* C15: once a missing or too short token has produced the invalid-link
\* status, no later step of the page issues a remote call or replaces that
\* status.
InvalidLinkIsTerminal ==
  [][vStatus = StInvalid => (vStatus' = StInvalid /\ Issued = {})]_vars

\* C16: add_guestbook_entry is issued only when the trimmed name and the
\* trimmed content are both non-empty and no other submit is in flight, and
\* with the trimmed values; a refused submit issues no call and leaves the
\* entries list as it was.
SubmitOnlyWhenFilled ==
  /\ [][/\ \A c \in Issued :
             c.rpc = ADD_ENTRY
               => /\ trim(vName) # <<>> /\ trim(vContent) # <<>>
                  /\ ~vSubmitBusy /\ AddsInFlight = {}
                  /\ c.display_name = trim(vName) /\ c.content = trim(vContent)
                  /\ Head(c.display_name) # " "
                  /\ c.content[Len(c.content)] # " "
        /\ (vAlert' # vAlert) => (vCalls' = vCalls /\ vEntries' = vEntries)]_vars
  /\ [](Cardinality(AddsInFlight) <= 1)

\* an entry typed with surrounding blanks is being sent trimmed
TrimmedSubmitWitness ==
  \E c \in AddsInFlight :
    /\ vName = <<" ", "K", " ">> /\ c.display_name = <<"K">>
    /\ vContent = <<"h", "i", " ">> /\ c.content = <<"h", "i">>
    /\ vAlert = "name and content required"

\* the step is submit() resuming with a success
SubmitSucceeds ==
  \E c \in AddsInFlight : c.resp = OkResp /\ c \notin vCalls'

\* C17 as stated: an entry comes into the visible list only when
\* add_guestbook_entry has returned success, and then first; while the call
\* is in flight or has failed the entries list is unchanged and the typed
\* name and content are kept.
EntriesFrozenWhileSubmitting ==
  [][AddsInFlight # {}
       => IF SubmitSucceeds
            THEN \E c \in AddsInFlight :
                   vEntries' = <<Entry(c.display_name, c.content)>> \o vEntries
            ELSE vEntries' = vEntries /\ vName' = vName /\ vContent' = vContent]_vars

\* the step is loadGuestbook resuming
GuestbookLoaded == \E c \in vCalls \ vCalls' : c.rpc = GET_GUESTBOOK

\* C17 (amended): submit puts an entry into the visible list only when
\* add_guestbook_entry has returned success, and then as the first element;
\* when it starts, while its call is in flight and when it fails, submit
\* leaves the entries list unchanged and the typed name and content are
\* kept; in that time only the page's still pending first load of the
\* guestbook can set the list.
SubmitAddsOnSuccessOnly ==
  [][/\ (vEntries' # vEntries /\ ~GuestbookLoaded)
          => /\ SubmitSucceeds
             /\ \E c \in AddsInFlight :
                  vEntries' = <<Entry(c.display_name, c.content)>> \o vEntries
     /\ (\E c \in Issued : c.rpc = ADD_ENTRY)
          => (vEntries' = vEntries /\ vName' = vName /\ vContent' = vContent)
     /\ (AddsInFlight # {} /\ ~SubmitSucceeds)
          => /\ vName' = vName /\ vContent' = vContent
             /\ GuestbookLoaded \/ vEntries' = vEntries]_vars

\* a second entry has been posted and stands first; an earlier submit failed
PostedFirstWitness ==
  /\ vStatus = StPosted
  /\ Len(vEntries) = 2 /\ vEntries[1] # vEntries[2]
  /\ vEntries = guestbook
  /\ vName = <<>> /\ vContent = <<>>

Called == pRes.error # "not called"

WellFormed(in) == in.shape \in {"plain", "padded"}

\* C18: the checks are made in the order pattern, month in 1..12, day in
\* 1..31, minutes = 00, hours in 0..23 or 24; the message returned is that of
\* the first check that fails, each check has its own message, and exactly
\* the inputs that pass all five are accepted.
ParseChecksInOrder ==
  Called =>
    /\ pRes.error =
         (IF ~WellFormed(pIn) THEN ERR_PATTERN
          ELSE IF pIn.mo \notin 1..12 THEN ERR_MONTH
          ELSE IF pIn.d \notin 1..31 THEN ERR_DAY
          ELSE IF pIn.mi # 0 THEN ERR_MINUTE
          ELSE IF pIn.h \notin (0..23) \cup {24} THEN ERR_HOUR
          ELSE NO_ERROR)
    /\ (pRes.iso # NULL) = (pRes.error = NO_ERROR)
    /\ Cardinality({ERR_PATTERN, ERR_MONTH, ERR_DAY, ERR_MINUTE, ERR_HOUR, NO_ERROR}) = 6

\* month 13 with minutes 30 and hour 25 was rejected for the month
MonthBeforeMinutesWitness ==
  /\ Called /\ WellFormed(pIn)
  /\ pIn.mo = 13 /\ pIn.mi = 30 /\ pIn.h = 25 /\ pIn.d = 32
  /\ pRes.error = ERR_MONTH

\* the day after (y, m, d) in the calendar
NextDay(y, m, d) ==
  IF d < DaysInMonth(y, m) THEN [y |-> y, mo |-> m, d |-> d + 1]
  ELSE IF m < 12 THEN [y |-> y, mo |-> m + 1, d |-> 1]
  ELSE [y |-> y + 1, mo |-> 1, d |-> 1]

\* local hours from 0001-01-01 00:00 to hour h of the calendar day (y, m, d)
CalendarHours(y, m, d, h) ==
  (DaysBeforeYear(y) + DaysBeforeMonth(y, m) + (d - 1)) * 24 + h

\* C19: for every accepted input that names a day of the calendar, hour 24
\* gives 00:00 of the next calendar day, the same instant as the input
\* 'next day 00:00' (also across month and year ends), and an hour 0..23
\* gives that hour of the given day.
Hour24IsNextDay ==
  (Called /\ pRes.error = NO_ERROR /\ pIn.d <= DaysInMonth(pIn.y, pIn.mo)) =>
    IF pIn.h = 24
      THEN LET nd == NextDay(pIn.y, pIn.mo, pIn.d)
           IN /\ getTime(pRes.iso) = CalendarHours(nd.y, nd.mo, nd.d, 0)
              /\ pRes.iso =
                   parseArtworkMadeAt(
                     Typed([y |-> nd.y, mo |-> nd.mo, d |-> nd.d, h |-> 0, mi |-> 0,
                            shape |-> "plain"])).iso
      ELSE getTime(pRes.iso) = CalendarHours(pIn.y, pIn.mo, pIn.d, pIn.h)

\* C20: with the "current time" checkbox on the made-at validator plays no
\* part: madeAtError is null and, whatever the text field holds, the form is
\* submittable exactly when name, title and file are present, and upload()
\* stamps artwork_made_at with the current instant; with the checkbox off
\* upload() issues its remote calls only for a text that passes the validator,
\* and stamps the instant the validator returns.
UseNowSkipsValidator ==
  /\ [](form.useNow => (form.madeAtError = NO_ERROR /\ (Submittable <=> form.filled)))
  /\ [][(up.pc = "idle" /\ up'.pc # "idle")
         => /\ form.filled
            /\ form.useNow => up'.artwork_made_at = toISO(now)
            /\ ~form.useNow
                 => /\ parseArtworkMadeAt(form.madeAtInput).error = NO_ERROR
                    /\ up'.artwork_made_at = parseArtworkMadeAt(form.madeAtInput).iso]_vars

\* an upload started at instant 1 with the checkbox on while the text field
\* holds letters
MalformedTextWitness ==
  /\ up.pc = "profile"
  /\ form.useNow /\ form.filled
  /\ parseArtworkMadeAt(form.madeAtInput).error = ERR_PATTERN
  /\ now = 1 /\ up.artwork_made_at = toISO(1)

\* C21: upload() issues the artworks insert only after storage.upload has
\* succeeded: a failed storage upload ends the handler with no record
\* created; a record is created only by the insert of the file just stored;
\* and the insert, failing or not, leaves the stored files alone (no removal).
StoreThenInsert ==
  /\ [](up.pc = "insert" => up.id \in files)
  /\ [][/\ (up.pc = "storage" /\ up' # up /\ up.id \notin files')
           => (up'.pc = "idle" /\ store' = store)
        /\ (DOMAIN store' \ DOMAIN store # {})
           => (up.pc = "insert" /\ DOMAIN store' \ DOMAIN store = {up.id})
        /\ (up.pc = "insert" /\ up' # up)
           => (files' = files /\ up'.pc = "idle")]_vars

\* the insert has failed after the file was stored: a file without a record
OrphanedFileWitness ==
  /\ up.pc = "idle"
  /\ IdSeq[1] \in files
  /\ IdSeq[1] \notin DOMAIN store
  /\ nextId = 2

DeleteHandlers == {h \in handlers : h.op = "delete"}

\* C22: deleteArtwork attempts storage.remove before the artworks delete and
\* issues the artworks delete whatever storage.remove returned, and at once
\* when no storage path can be derived; a record is deleted only by a handler
\* that has got that far; the artwork leaves the in-memory list of the open
\* page only when its record is gone from the table.
DeleteStorageThenRecord ==
  [][/\ \A h \in handlers' \ handlers :
          h.op = "delete"
            => \/ h.pc = "storage" /\ getStoragePathFromPrivateImagePath(h.id) # ""
               \/ /\ h.pc = "dbdelete"
                  /\ \/ getStoragePathFromPrivateImagePath(h.id) = ""
                     \/ \E g \in handlers \ handlers' : g.id = h.id /\ g.pc = "storage"
     /\ \A h \in DeleteHandlers \ handlers' :
          h.pc = "storage"
            => \E g \in handlers' : g.op = "delete" /\ g.id = h.id /\ g.pc = "dbdelete"
     /\ \A id \in DOMAIN store \ DOMAIN store' :
          \E h \in DeleteHandlers : h.id = id /\ h.pc = "dbdelete"
     /\ mountPc' = "done"
          => \A id \in DOMAIN items \ DOMAIN items' : id \notin DOMAIN store']_vars

\* storage.remove failed and the record was deleted all the same: the file
\* is left without a record, and the row is gone from the list
DeletedDespiteStorageFailure ==
  /\ mountPc = "done"
  /\ msg = <<"deleted", "">>
  /\ IdSeq[1] \in files /\ IdSeq[1] \notin noPath
  /\ IdSeq[1] \notin DOMAIN store
  /\ IdSeq[1] \notin DOMAIN items
  /\ busyId = NULL_ID

\* C23 as stated: every artwork the gallery page lists is, when the list is
\* loaded, public with a deadline still ahead.
GalleryListsOnlyOpenWindows ==
  [][gItems' # gItems
       => \A id \in DOMAIN gItems' :
            /\ gItems'[id].is_public
            /\ gItems'[id].public_until # NULL
            /\ getTime(gItems'[id].public_until) > now]_vars

\* C24 as stated: when the session ends, every open authenticated page
\* (home, gallery, manage) is at /login in the next state.
NoSessionMeansLogin ==
  [][(session /\ ~session')
       => /\ gPc # "closed" => gPc' = "login"
          /\ hPc # "closed" => hPc' = "login"
          /\ mountPc # "closed" => mountPc' = "login"]_vars

\* C27: the artworks query is issued only when the expire_public_artworks
\* call has returned, and is issued however that call ended; the call's
\* failure sets no message and leaves the list to be loaded by the query.
SweepNeverBlocksQuery ==
  [][/\ (gPc' = "query" /\ gPc # "query") => (gPc = "sweep" /\ gSweep' \in SweepOutcomes)
     /\ (gPc = "sweep" /\ gPc' \notin {"sweep", "login"})
          => /\ gPc' = "query"
             /\ gMsg' = gMsg /\ gItems' = gItems /\ gLoading' = gLoading
     /\ (gPc = "query" /\ gPc' = "open" /\ gMsg' = NoMsg)
          => gItems' = PublicRows(store)]_vars

\* the sweep threw and the list was loaded all the same, without a message
SweepThrewListLoaded ==
  /\ gPc = "open"
  /\ gSweep = "threw"
  /\ gItems # <<>>
  /\ gMsg = NoMsg /\ ~gLoading

\* C25: createOrRegenerateInvite starts only when none is in flight and
\* inviteBusy is false; inviteBusy is true exactly while one is in flight, so
\* it is false again after a failed profile lookup, a failed save and a success.
InviteSerialized ==
  /\ [](inviteBusy <=> inv.pc # "idle")
  /\ [][/\ (inv'.pc = "profile" /\ inv' # inv) => (inv.pc = "idle" /\ ~inviteBusy)
        /\ (inv.pc # "idle" /\ inv'.pc = "idle") => ~inviteBusy']_vars

\* the save was not confirmed: the handler has ended and the button is
\* enabled again
InviteSaveFailedWitness ==
  /\ msg = <<"invite failed", "save not confirmed">>
  /\ inv = InvIdle
  /\ ~inviteBusy
  /\ mountPc = "done"

\* C26 as stated: every write of an invite token by a session of the family
\* is accepted, and after it the token just written is the only one stored
\* for the family, so the only one that resolves.
LastWrittenTokenOnly ==
  [][profiles' # profiles
       => \E tok \in Tokens :
            /\ \E u \in Users :
                 profiles'[u].invite_token = tok /\ profiles[u].invite_token # tok
            /\ {profiles'[u].invite_token :
                  u \in {x \in Users : profiles'[x].family_id = FAMILY}}
                 \ {NULL_TOKEN} = {tok}]_vars

\* C28 as stated: the update of extendTwoWeeks never turns a stored
\* is_public from false to true, also when another session has un-published
\* the artwork since this page loaded it.
ExtendNeverRepublishes ==
  [][\A h \in handlers \ handlers' :
       (/\ h.op = "extend" /\ h.pc = "update"
        /\ h.id \in DOMAIN store /\ h.id \in DOMAIN store')
         => (store'[h.id].is_public => store[h.id].is_public)]_vars

\* C29 as stated: whenever no operation is in flight on the manage page, the
\* rows of its in-memory list are the rows as stored: every row shown exists
\* and carries the stored is_public and public_until (this page is the only
\* writer), whatever the order in which overlapping reloads returned.
ItemsReflectWrites ==
  (mountPc = "done" /\ handlers = {})
    => \A id \in DOMAIN items : id \in DOMAIN store /\ items[id] = store[id]

\* C30: a mutation handler (togglePublic, extendTwoWeeks, deleteArtwork)
\* that has set busyId resets it to null in the end, on its success and its
\* failure paths, when each of its remote calls returns; and when no mutation
\* handler is in flight busyId is null, so no row has disabled controls.
BusyEventuallyReset ==
  /\ []((\A h \in handlers : h.op \notin Mutations) => busyId = NULL_ID)
  /\ \A id \in ArtIds : (busyId = id) ~> (busyId = NULL_ID)

\* an extend has failed and has ended: the row's controls are enabled again
ExtendFailedBusyReset ==
  /\ mountPc = "done"
  /\ msg = <<"extend failed", "permission denied">>
  /\ handlers = {}
  /\ busyId = NULL_ID
  /\ IdSeq[1] \in DOMAIN items

====
